---- MODULE Spec2Model ----
(***************************************************************************)
(* Verification model of the chiral-network core:                          *)
(*   - ReputationRecord          (src-tauri/src/reputation.rs)             *)
(*   - StorageNodeService        (src-tauri/src/storage_node.rs)           *)
(*   - run_dht_node / DhtService (src-tauri/src/dht.rs)                    *)
(*   - ChunkManager (frames)     (storage/src/chunks.rs)                   *)
(*   - ChunkManager (manifests)  (src-tauri/src/manager.rs)                *)
(* Each component has its own specification over the shared variable list; *)
(* a component's specification leaves the other components' variables      *)
(* unchanged.                                                              *)
(***************************************************************************)
EXTENDS Integers, Sequences, FiniteSets, TLC

VARIABLES
    \* ---- reputation.rs : ReputationRecord ----
    rep_now,          \* SystemTime::now() as seen by the record, seconds
    verdicts,         \* ReputationRecord.verdicts
    last_updated,     \* ReputationRecord.last_updated
    rep_calls,        \* number of add_verdict calls made so far
    rep_arg,          \* argument of the latest add_verdict call
    \* ---- storage_node.rs : StorageNodeService ----
    stored_chunks,    \* chunk_hash -> ChunkMetadata.size (NoChunk when absent)
    used_capacity,    \* StorageNodeService.used_capacity
    disk,             \* storage_path/<chunk_hash> -> file content
    st_pc,            \* per caller: position inside store_chunk / delete_chunk
    st_req,           \* per caller: the request being served
    st_ret,           \* per caller: result of the latest finished call
    st_pair,          \* per caller: bookkeeping of an uninterrupted store-then-delete
    \* ---- dht.rs : run_dht_node and DhtService ----
    dht_now,            \* the clock, seconds
    bootstrap_interval, \* the tokio Interval: period and next deadline
    metrics,            \* DhtMetrics behind Arc<Mutex<..>>
    connected_peers,    \* Arc<Mutex<HashSet<PeerId>>>
    open_conns,         \* swarm: open connections per remote peer
    task_pc,            \* position of the node task
    shutdown_ack,       \* the caller whose ack sender the task holds
    pending_event,      \* the event of a send suspended on a full channel
    cmd_chan,           \* command channel contents
    event_chan,         \* event channel contents
    queries,            \* get_record queries started by SearchFile
    api_ret,            \* per caller: latest DhtService call and its result
    shutdown_ok,        \* some shutdown() call has returned Ok
    periodic,           \* history of the periodic kademlia.bootstrap() attempts
    \* ---- storage/src/chunks.rs : chunk_file then reassemble_file ----
    ck_input,         \* the plaintext file and the encryption key
    ck_pc,            \* position: chunking, chunked, reassembling, done
    ck_index,         \* chunk_file: index of the next chunk
    ck_chunks,        \* chunk_file: the Vec<ChunkInfo> built so far
    ck_disk,          \* the files under storage_path, named by chunk hash
    ck_nonce,         \* number of nonces drawn from OsRng
    ck_todo,          \* reassemble_file: sorted chunks still to process
    ck_out,           \* reassemble_file: the output file
    ck_result,        \* reassemble_file: Ok or the error
    \* ---- src-tauri/src/manager.rs : store_file_with_manifest ----
    mg_files,         \* the files under chunks/
    mg_manifests,     \* the files under manifests/
    mg_pc,            \* position inside store_file_with_manifest
    mg_op,            \* the locals of the running call
    mg_clock,         \* number of calls begun, also the wall clock
    mg_ret,           \* result of the latest finished call
    mg_hist,          \* the latest successful call and the one right before it
    \* ---- the chunk writers: save_chunk_atomic (manager.rs), save_chunk (chunks.rs) ----
    sv_names,         \* directory entries: path -> inode
    sv_inodes,        \* inode -> file content
    sv_lock,          \* inode -> the writer holding the exclusive lock
    sv_w,              \* per writer: position, data, open file and offset, result
    \* ---- chunks.rs : a stored frame altered between chunk_file and reassemble_file ----
    ck_altered,        \* names of the chunk files a byte of which was changed
    \* ---- manager.rs : reconstruct_file ----
    rc_ret,           \* the latest reconstruct_file or load_manifest call: arguments, result, output
    rc_tampered,       \* whether a chunk file was removed or altered behind the manager
    \* ---- market.rs : MarketService ----
    mk_storage_nodes,   \* storage_nodes: the set of registered StorageNode values, one per node_id
    mk_file_suppliers,  \* file_suppliers: file_hash -> sequence of FileSupplier, in push order
    mk_now,             \* SystemTime::now() in seconds
    mk_ret,              \* the return of the latest query, while the registry and clock are as it saw them
    \* ---- reputation.rs : BlacklistManager ----
    bl_config,          \* BlacklistManager.config, fixed by new()
    bl_entries,         \* BlacklistManager.entries: the set of BlacklistEntry, one per peer_id
    bl_now,             \* SystemTime::now() in seconds
    bl_ret,              \* the latest call: its name, arguments and return value
    \* ---- reputation.rs : ReputationCache ----
    cs_cache,           \* whether the cache was constructed, and ReputationCache.ttl
    cs_scores,          \* ReputationCache.scores: the set of cached entries, one per peer_id
    cs_set,             \* for each peer, the latest set() since the latest clear()
    cs_now,             \* SystemTime::now() in seconds
    cs_ret,              \* the latest call: its name, argument and return value
    \* ---- reputation.rs : TransactionVerdict signatures ----
    sg_verdict,         \* the verdict at hand
    sg_signed,          \* the verdict as sign_with left it, and the signing key
    sg_ret,              \* the return of the latest verify_signature, and its key
    sc_ret,            \* the last scoring call: its input and what it returned
    cmd_log,           \* dht.rs history: commands accepted by the channel, commands handled
    dht_new           \* dht.rs DhtService::new: the bootstrap dials made and what the call set up

repVars == <<rep_now, verdicts, last_updated, rep_calls, rep_arg>>
stVars  == <<stored_chunks, used_capacity, disk, st_pc, st_req, st_ret, st_pair>>
dhtVars == <<dht_now, bootstrap_interval, metrics, connected_peers, open_conns, task_pc,
             shutdown_ack, pending_event, cmd_chan, event_chan, queries, api_ret,
             shutdown_ok, periodic>>
ckVars  == <<ck_input, ck_pc, ck_index, ck_chunks, ck_disk, ck_nonce, ck_todo, ck_out,
             ck_result>>
mgVars  == <<mg_files, mg_manifests, mg_pc, mg_op, mg_clock, mg_ret, mg_hist>>
svVars  == <<sv_names, sv_inodes, sv_lock, sv_w>>
caVars  == <<ck_altered>>
rcVars  == <<rc_ret, rc_tampered>>
mkVars  == <<mk_storage_nodes, mk_file_suppliers, mk_now, mk_ret>>
blVars  == <<bl_config, bl_entries, bl_now, bl_ret>>
csVars  == <<cs_cache, cs_scores, cs_set, cs_now, cs_ret>>
sgVars  == <<sg_verdict, sg_signed, sg_ret>>
scVars  == <<sc_ret>>
ordVars == <<cmd_log>>
nwVars  == <<dht_new>>
vars    == <<repVars, stVars, dhtVars, ckVars, mgVars, svVars, caVars, rcVars, mkVars, blVars, csVars, sgVars, scVars, ordVars, nwVars>>

\* what a component's steps leave alone: the variables of the others
notRep == <<stVars, dhtVars, ckVars, mgVars, svVars, caVars, rcVars, mkVars, blVars, csVars, sgVars, scVars, ordVars, nwVars>>
notSt  == <<repVars, dhtVars, ckVars, mgVars, svVars, caVars, rcVars, mkVars, blVars, csVars, sgVars, scVars, ordVars, nwVars>>
notDht == <<repVars, stVars, ckVars, mgVars, svVars, caVars, rcVars, mkVars, blVars, csVars, sgVars, scVars, ordVars, nwVars>>
notCk  == <<repVars, stVars, dhtVars, mgVars, svVars, caVars, rcVars, mkVars, blVars, csVars, sgVars, scVars, ordVars, nwVars>>
notMg  == <<repVars, stVars, dhtVars, ckVars, svVars, caVars, rcVars, mkVars, blVars, csVars, sgVars, scVars, ordVars, nwVars>>
notSv  == <<repVars, stVars, dhtVars, ckVars, mgVars, caVars, rcVars, mkVars, blVars, csVars, sgVars, scVars, ordVars, nwVars>>
notCa  == <<repVars, stVars, dhtVars, mgVars, svVars, rcVars, mkVars, blVars, csVars, sgVars, scVars, ordVars, nwVars>>
notRc  == <<repVars, stVars, dhtVars, ckVars, mgVars, svVars, caVars, mkVars, blVars, csVars, sgVars, scVars, ordVars, nwVars>>
notMgRc == <<repVars, stVars, dhtVars, ckVars, svVars, caVars, mkVars, blVars, csVars, sgVars, scVars, ordVars, nwVars>>
notMk  == <<repVars, stVars, dhtVars, ckVars, mgVars, svVars, caVars, rcVars, blVars, csVars, sgVars, scVars, ordVars, nwVars>>
notBl  == <<repVars, stVars, dhtVars, ckVars, mgVars, svVars, caVars, rcVars, mkVars, csVars, sgVars, scVars, ordVars, nwVars>>
notCs  == <<repVars, stVars, dhtVars, ckVars, mgVars, svVars, caVars, rcVars, mkVars, blVars, sgVars, scVars, ordVars, nwVars>>
notSg  == <<repVars, stVars, dhtVars, ckVars, mgVars, svVars, caVars, rcVars, mkVars, blVars, csVars, scVars, ordVars, nwVars>>
notSc  == <<repVars, stVars, dhtVars, ckVars, mgVars, svVars, caVars, rcVars, mkVars, blVars, csVars, sgVars, ordVars, nwVars>>
notDhtOrd == <<repVars, stVars, ckVars, mgVars, svVars, caVars, rcVars, mkVars, blVars, csVars, sgVars, scVars, nwVars>>
notDhtNw == <<repVars, stVars, ckVars, mgVars, svVars, caVars, rcVars, mkVars, blVars, csVars, sgVars, scVars, ordVars>>
notNw  == <<repVars, stVars, dhtVars, ckVars, mgVars, svVars, caVars, rcVars, mkVars, blVars, csVars, sgVars, scVars, ordVars>>

Min(a, b) == IF a < b THEN a ELSE b
Max(a, b) == IF a > b THEN a ELSE b

(***************************************************************************)
(*                     reputation.rs : ReputationRecord                    *)
(***************************************************************************)
MaxRepTime  == 3
MaxRepCalls == 4
MaxSeqNo    == 2

Issuers  == {"i1", "i2"}
Outcomes == {"good", "bad"}
\* TransactionVerdict, restricted to the fields add_verdict reads or stores
Verdicts == [issuer_id : Issuers, issuer_seq_no : 1..MaxSeqNo, outcome : Outcomes]
NoVerdict == [issuer_id |-> "", issuer_seq_no |-> 0, outcome |-> "good"]

\* self.verdicts.iter().any(|v| v.issuer_id == .. && v.issuer_seq_no == ..)
is_duplicate(vs, verdict) ==
    \E i \in 1..Len(vs) :
        /\ vs[i].issuer_id = verdict.issuer_id
        /\ vs[i].issuer_seq_no = verdict.issuer_seq_no

\* A plausible slip: the duplicate test compares the issuer only when the
\* outcome matches too, so a re-issued verdict with another outcome is kept.
add_verdict_dup_by_value(rec, verdict, t) ==
    IF ~(\E i \in 1..Len(rec.verdicts) : rec.verdicts[i] = verdict)
    THEN [verdicts |-> Append(rec.verdicts, verdict), last_updated |-> t]
    ELSE rec

\* ReputationRecord::add_verdict ; t is the reading of SystemTime::now()
add_verdict(rec, verdict, t) ==
    IF ~is_duplicate(rec.verdicts, verdict)
    THEN [verdicts |-> Append(rec.verdicts, verdict), last_updated |-> t]
    ELSE rec

RepInit ==
    /\ rep_now = 0
    /\ verdicts = << >>
    /\ last_updated = rep_now
    /\ rep_calls = 0
    /\ rep_arg = NoVerdict

AddVerdict(v) ==
    /\ rep_calls < MaxRepCalls
    /\ LET r == add_verdict([verdicts |-> verdicts, last_updated |-> last_updated],
                            v, rep_now)
       IN /\ verdicts' = r.verdicts
          /\ last_updated' = r.last_updated
    /\ rep_calls' = rep_calls + 1
    /\ rep_arg' = v
    /\ UNCHANGED rep_now

RepClock ==
    /\ rep_now < MaxRepTime
    /\ rep_now' = rep_now + 1
    /\ UNCHANGED <<verdicts, last_updated, rep_calls, rep_arg>>

RepNext ==
    \/ \E v \in Verdicts : AddVerdict(v) /\ UNCHANGED notRep
    \/ RepClock /\ UNCHANGED notRep

(***************************************************************************)
(*                   storage_node.rs : StorageNodeService                  *)
(***************************************************************************)
TotalCapacity == 3
MaxChunkLen   == 1

Procs == {"p1", "p2"}
\* chunk payloads: byte strings of length 1..MaxChunkLen
ChunkData == {[i \in 1..n |-> 0] : n \in 1..MaxChunkLen}
\* compute_chunk_hash: SHA-256, modelled as an injective digest of the bytes
compute_chunk_hash(data) == <<"sha256", data>>
ChunkHashes == {compute_chunk_hash(d) : d \in ChunkData}
\* the chunk_hash field of a StorageRequest: the digest of a chunk, or of
\* other bytes than the ones sent (here the digest of the empty string)
RequestHashes == ChunkHashes \cup {compute_chunk_hash(<< >>)}

NoChunk   == 0
NoFile    == [state |-> "absent", data |-> << >>]
Partial   == [state |-> "partial", data |-> << >>]
Complete(data) == [state |-> "complete", data |-> data]
NoHash    == <<"none", << >> >>
Underflow == -1
NoReq   == [chunk_hash |-> NoHash, chunk_data |-> << >>, chunk_size |-> 0,
            detached |-> FALSE]
NoPair  == [stage |-> "none", hash |-> NoHash, used_before |-> 0]
\* result of a finished call: Ok / Err(..), and for get_storage_stats the
\* StorageStats fields used_capacity, available_capacity, stored_chunks
Ret(r)  == [result |-> r, used_capacity |-> 0, available_capacity |-> 0,
            stored_chunks |-> 0]

\* store_chunk, capacity test: `if used + chunk_size > self.total_capacity { Err }`
has_capacity(used, chunk_size, total) == ~(used + chunk_size > total)

\* A plausible slip: plain subtraction of the recorded size is replaced by a
\* reset of the counter.
saturating_sub_reset(a, b) == 0

\* u64::saturating_sub
saturating_sub(a, b) == IF a >= b THEN a - b ELSE 0

\* `self.total_capacity - used` on u64: an underflow aborts the call (debug
\* build) or wraps (release build); both are reported as Underflow.
available_capacity(total, used) == IF used <= total THEN total - used ELSE Underflow

\* every caller other than p loses its uninterrupted store-then-delete record
PairStep(p, mine) == st_pair' = [q \in Procs |-> IF q = p THEN mine ELSE NoPair]

StInit ==
    /\ stored_chunks = [h \in ChunkHashes |-> NoChunk]
    /\ used_capacity = 0
    /\ disk = [h \in ChunkHashes |-> NoFile]
    /\ st_pc = [p \in Procs |-> "idle"]
    /\ st_req = [p \in Procs |-> NoReq]
    /\ st_ret = [p \in Procs |-> Ret("none")]
    /\ st_pair = [p \in Procs |-> NoPair]

\* A plausible slip: the capacity is reserved while the used_capacity lock of
\* the capacity test is still held, and a request rejected by the hash
\* verification keeps its reservation.
StoreCheck_reserving(p, h, d) ==
    /\ st_pc[p] = "idle"
    /\ LET size == Len(d) IN
       IF ~has_capacity(used_capacity, size, TotalCapacity)
       THEN /\ st_ret' = [st_ret EXCEPT ![p] = Ret("err_capacity")]
            /\ PairStep(p, NoPair)
            /\ UNCHANGED <<st_pc, st_req, used_capacity>>
       ELSE IF compute_chunk_hash(d) # h
       THEN /\ st_ret' = [st_ret EXCEPT ![p] = Ret("err_hash")]
            /\ used_capacity' = used_capacity + size
            /\ PairStep(p, NoPair)
            /\ UNCHANGED <<st_pc, st_req>>
       ELSE /\ st_pc' = [st_pc EXCEPT ![p] = "st_write"]
            /\ st_req' = [st_req EXCEPT ![p] =
                   [chunk_hash |-> h, chunk_data |-> d, chunk_size |-> size,
                    detached |-> FALSE]]
            /\ st_ret' = [st_ret EXCEPT ![p] = Ret("none")]
            /\ PairStep(p, [stage |-> "storing", hash |-> h,
                            used_before |-> used_capacity])
            /\ UNCHANGED used_capacity
    /\ UNCHANGED <<stored_chunks, disk>>

\* store_chunk, lines 71-85: capacity test under the used_capacity lock, then
\* the hash verification (local computation)
StoreCheck(p, h, d) ==
    /\ st_pc[p] = "idle"
    /\ LET size == Len(d) IN
       IF ~has_capacity(used_capacity, size, TotalCapacity)
       THEN /\ st_ret' = [st_ret EXCEPT ![p] = Ret("err_capacity")]
            /\ PairStep(p, NoPair)
            /\ UNCHANGED <<st_pc, st_req>>
       ELSE IF compute_chunk_hash(d) # h
       THEN /\ st_ret' = [st_ret EXCEPT ![p] = Ret("err_hash")]
            /\ PairStep(p, NoPair)
            /\ UNCHANGED <<st_pc, st_req>>
       ELSE /\ st_pc' = [st_pc EXCEPT ![p] = "st_write"]
            /\ st_req' = [st_req EXCEPT ![p] =
                   [chunk_hash |-> h, chunk_data |-> d, chunk_size |-> size,
                    detached |-> FALSE]]
            /\ st_ret' = [st_ret EXCEPT ![p] = Ret("none")]
            /\ PairStep(p, [stage |-> "storing", hash |-> h,
                            used_before |-> used_capacity])
    /\ UNCHANGED <<stored_chunks, used_capacity, disk>>

\* store_chunk, line 89: tokio::fs::write opens the file with create+truncate ...
StoreWriteOpen(p, ok) ==
    /\ st_pc[p] = "st_write"
    /\ IF ok
       THEN /\ disk' = [disk EXCEPT ![st_req[p].chunk_hash] = Partial]
            /\ st_pc' = [st_pc EXCEPT ![p] = "st_writing"]
            /\ PairStep(p, st_pair[p])
            /\ UNCHANGED <<st_req, st_ret>>
       ELSE /\ st_pc' = [st_pc EXCEPT ![p] = "idle"]
            /\ st_req' = [st_req EXCEPT ![p] = NoReq]
            /\ st_ret' = [st_ret EXCEPT ![p] = Ret("err_io")]
            /\ PairStep(p, NoPair)
            /\ UNCHANGED disk
    /\ UNCHANGED <<stored_chunks, used_capacity>>

\* ... and then writes all bytes; a file unlinked meanwhile no longer
\* receives them under its name
StoreWriteDone(p, ok) ==
    /\ st_pc[p] = "st_writing"
    /\ IF ok
       THEN /\ disk' = IF st_req[p].detached THEN disk
                       ELSE [disk EXCEPT ![st_req[p].chunk_hash] =
                                           Complete(st_req[p].chunk_data)]
            /\ st_pc' = [st_pc EXCEPT ![p] = "st_update"]
            /\ PairStep(p, st_pair[p])
            /\ UNCHANGED <<st_req, st_ret>>
       ELSE /\ st_pc' = [st_pc EXCEPT ![p] = "idle"]
            /\ st_req' = [st_req EXCEPT ![p] = NoReq]
            /\ st_ret' = [st_ret EXCEPT ![p] = Ret("err_io")]
            /\ PairStep(p, NoPair)
            /\ UNCHANGED disk
    /\ UNCHANGED <<stored_chunks, used_capacity>>

\* store_chunk, lines 105-111: chunks.insert and *used += chunk_size under
\* both locks
StoreUpdate(p) ==
    /\ st_pc[p] = "st_update"
    /\ stored_chunks' = [stored_chunks EXCEPT ![st_req[p].chunk_hash] = st_req[p].chunk_size]
    /\ used_capacity' = used_capacity + st_req[p].chunk_size
    /\ st_pc' = [st_pc EXCEPT ![p] = "idle"]
    /\ st_req' = [st_req EXCEPT ![p] = NoReq]
    /\ st_ret' = [st_ret EXCEPT ![p] = Ret("ok")]
    /\ PairStep(p, IF st_pair[p].stage = "storing"
                   THEN [st_pair[p] EXCEPT !.stage = "stored"] ELSE NoPair)
    /\ UNCHANGED disk

\* delete_chunk, lines 196-199: read the recorded size (0 when unknown)
DeleteBegin(p, h) ==
    /\ st_pc[p] = "idle"
    /\ st_pc' = [st_pc EXCEPT ![p] = "del_remove"]
    /\ st_req' = [st_req EXCEPT ![p] =
           [chunk_hash |-> h, chunk_data |-> << >>,
            chunk_size |-> stored_chunks[h], detached |-> FALSE]]
    /\ st_ret' = [st_ret EXCEPT ![p] = Ret("none")]
    /\ PairStep(p, IF st_pair[p].stage = "stored" /\ st_pair[p].hash = h
                   THEN [st_pair[p] EXCEPT !.stage = "deleting"] ELSE NoPair)
    /\ UNCHANGED <<stored_chunks, used_capacity, disk>>

\* delete_chunk, lines 202-204: tokio::fs::remove_file
DeleteRemove(p) ==
    /\ st_pc[p] = "del_remove"
    /\ LET h == st_req[p].chunk_hash IN
       IF disk[h] = NoFile
       THEN /\ st_pc' = [st_pc EXCEPT ![p] = "idle"]
            /\ st_req' = [st_req EXCEPT ![p] = NoReq]
            /\ st_ret' = [st_ret EXCEPT ![p] = Ret("err_io")]
            /\ PairStep(p, NoPair)
            /\ UNCHANGED disk
       ELSE /\ disk' = [disk EXCEPT ![h] = NoFile]
            /\ st_pc' = [st_pc EXCEPT ![p] = "del_update"]
            /\ st_req' = [q \in Procs |->
                   IF st_pc[q] = "st_writing" /\ st_req[q].chunk_hash = h
                   THEN [st_req[q] EXCEPT !.detached = TRUE] ELSE st_req[q]]
            /\ PairStep(p, st_pair[p])
            /\ UNCHANGED st_ret
    /\ UNCHANGED <<stored_chunks, used_capacity>>

\* delete_chunk, lines 207-213: chunks.remove and saturating decrement
DeleteUpdate(p) ==
    /\ st_pc[p] = "del_update"
    /\ stored_chunks' = [stored_chunks EXCEPT ![st_req[p].chunk_hash] = NoChunk]
    /\ used_capacity' = saturating_sub(used_capacity, st_req[p].chunk_size)
    /\ st_pc' = [st_pc EXCEPT ![p] = "idle"]
    /\ st_req' = [st_req EXCEPT ![p] = NoReq]
    /\ st_ret' = [st_ret EXCEPT ![p] = Ret("ok")]
    /\ PairStep(p, IF st_pair[p].stage = "deleting"
                   THEN [st_pair[p] EXCEPT !.stage = "done"] ELSE NoPair)
    /\ UNCHANGED disk

\* list_chunks
list_chunks == {h \in ChunkHashes : stored_chunks[h] # NoChunk}

\* get_storage_stats: both locks held for the whole snapshot
GetStorageStats(p) ==
    /\ st_pc[p] = "idle"
    /\ st_ret' = [st_ret EXCEPT ![p] =
           [result |-> "stats",
            used_capacity |-> used_capacity,
            available_capacity |-> available_capacity(TotalCapacity, used_capacity),
            stored_chunks |-> Cardinality(list_chunks)]]
    /\ PairStep(p, NoPair)
    /\ UNCHANGED <<stored_chunks, used_capacity, disk, st_pc, st_req>>

\* retrieve_chunk, lines 128-149: tokio::fs::read of storage_path/<hash>
\* returns the bytes the file holds at that moment, or Err when there is no
\* file; the access_count and last_accessed updates of the metadata are not
\* part of the model's stored_chunks (which keeps the size)
RetrieveChunk(p, h) ==
    /\ st_pc[p] = "idle"
    /\ st_ret' = [st_ret EXCEPT ![p] =
           IF disk[h] = NoFile THEN Ret("err_io")
           ELSE [result |-> "chunk", chunk_hash |-> h, data |-> disk[h].data]]
    /\ PairStep(p, NoPair)
    /\ UNCHANGED <<stored_chunks, used_capacity, disk, st_pc, st_req>>

\* verify_chunk, lines 152-167: Ok(false) when the path does not exist,
\* otherwise the file is read and its SHA-256 compared with chunk_hash
VerifyChunk(p, h) ==
    /\ st_pc[p] = "idle"
    /\ st_ret' = [st_ret EXCEPT ![p] =
           [result |-> "verified", chunk_hash |-> h, exists |-> disk[h] # NoFile,
            valid |-> disk[h] # NoFile /\ compute_chunk_hash(disk[h].data) = h]]
    /\ PairStep(p, NoPair)
    /\ UNCHANGED <<stored_chunks, used_capacity, disk, st_pc, st_req>>

StNext ==
    \/ \E p \in Procs, h \in ChunkHashes : RetrieveChunk(p, h) /\ UNCHANGED notSt
    \/ \E p \in Procs, h \in ChunkHashes : VerifyChunk(p, h) /\ UNCHANGED notSt
    \/ \E p \in Procs, h \in RequestHashes, d \in ChunkData :
           StoreCheck(p, h, d) /\ UNCHANGED notSt
    \/ \E p \in Procs, ok \in BOOLEAN : StoreWriteOpen(p, ok) /\ UNCHANGED notSt
    \/ \E p \in Procs, ok \in BOOLEAN : StoreWriteDone(p, ok) /\ UNCHANGED notSt
    \/ \E p \in Procs : StoreUpdate(p) /\ UNCHANGED notSt
    \/ \E p \in Procs, h \in ChunkHashes : DeleteBegin(p, h) /\ UNCHANGED notSt
    \/ \E p \in Procs : DeleteRemove(p) /\ UNCHANGED notSt
    \/ \E p \in Procs : DeleteUpdate(p) /\ UNCHANGED notSt
    \/ \E p \in Procs : GetStorageStats(p) /\ UNCHANGED notSt

\* one caller issuing its calls one after the other
Caller == "p1"
StSeqNext ==
    \/ \E h \in ChunkHashes : RetrieveChunk(Caller, h) /\ UNCHANGED notSt
    \/ \E h \in ChunkHashes : VerifyChunk(Caller, h) /\ UNCHANGED notSt
    \/ \E h \in RequestHashes, d \in ChunkData :
           StoreCheck(Caller, h, d) /\ UNCHANGED notSt
    \/ \E ok \in BOOLEAN : StoreWriteOpen(Caller, ok) /\ UNCHANGED notSt
    \/ \E ok \in BOOLEAN : StoreWriteDone(Caller, ok) /\ UNCHANGED notSt
    \/ StoreUpdate(Caller) /\ UNCHANGED notSt
    \/ \E h \in ChunkHashes : DeleteBegin(Caller, h) /\ UNCHANGED notSt
    \/ DeleteRemove(Caller) /\ UNCHANGED notSt
    \/ DeleteUpdate(Caller) /\ UNCHANGED notSt
    \/ GetStorageStats(Caller) /\ UNCHANGED notSt

(***************************************************************************)
(*                    dht.rs : run_dht_node / DhtService                   *)
(***************************************************************************)
TimeStep    == 30      \* the clock advances in steps of TimeStep seconds
MaxDhtTime  == 30      \* the clock stops advancing here
MaxErrors   == 3       \* connection errors are injected while bootstrap_failures is below
MaxConns    == 1       \* open connections per remote peer
MaxPeerConns == 2      \* the same where a peer is reached over several connections
MaxSearches == 1       \* get_record queries started in one run
CmdCap      == 2       \* mpsc::channel(100) for commands, scaled down
EventCap    == 1       \* mpsc::channel(100) for events, scaled down

BASE_BOOTSTRAP_INTERVAL      == 30
MAX_CONSECUTIVE_FAILURES     == 5
MAX_BOOTSTRAP_INTERVAL       == 300
MIN_PEER_COUNT_FOR_BOOTSTRAP == 2
MIN_BOOTSTRAP_SPACING        == 30
MAX_BACKOFF_EXPONENT         == 4

Peers      == {"q1", "q2"}
FileHashes == {"f1"}
Callers    == {"a1", "a2"}
ErrTexts   == {"Timeout", "Connection refused"}

NoTime   == -1
NoCaller == "nobody"
NoEvent  == [type |-> "none", arg |-> "none"]
Event(t, a) == [type |-> t, arg |-> a]
Cmd(t, a, c) == [type |-> t, arg |-> a, from |-> c]

\* DhtMetrics::default()
DefaultMetrics ==
    [last_bootstrap |-> NoTime, last_success |-> NoTime, last_error_at |-> NoTime,
     last_error |-> "none", bootstrap_failures |-> 0,
     consecutive_bootstrap_failures |-> 0, last_successful_bootstrap |-> NoTime]

\* tokio::time::interval(period) created at time t: the first tick completes
\* immediately, the following ones every period
NewInterval(period, t) == [period |-> period, deadline |-> t]
\* Interval::tick with MissedTickBehavior::Burst: the next deadline is the
\* previous deadline plus the period
NextTick(iv) == [iv EXCEPT !.deadline = iv.deadline + iv.period]

Pow2(n) == IF n = 0 THEN 1 ELSE IF n = 1 THEN 2 ELSE IF n = 2 THEN 4
           ELSE IF n = 3 THEN 8 ELSE 16

\* lines 185-186: (30 * 2^min(failures,4)).min(MAX_BOOTSTRAP_INTERVAL)
backoff_interval(failures) ==
    Min(BASE_BOOTSTRAP_INTERVAL * Pow2(Min(failures, MAX_BACKOFF_EXPONENT)),
        MAX_BOOTSTRAP_INTERVAL)

\* last.elapsed().unwrap_or_default().as_secs()
elapsed_secs(last, now) == IF now >= last THEN now - last ELSE 0

\* A plausible slip: the failure limit is compared with <= instead of <.
should_bootstrap_failures_le(peer_count, m, now) ==
    /\ peer_count < MIN_PEER_COUNT_FOR_BOOTSTRAP
    /\ m.consecutive_bootstrap_failures <= MAX_CONSECUTIVE_FAILURES
    /\ (m.last_bootstrap # NoTime
            => elapsed_secs(m.last_bootstrap, now) >= MIN_BOOTSTRAP_SPACING)

\* lines 155-168: has_few_peers && not_too_many_failures && enough_time_passed
should_bootstrap(peer_count, m, now) ==
    /\ peer_count < MIN_PEER_COUNT_FOR_BOOTSTRAP
    /\ m.consecutive_bootstrap_failures < MAX_CONSECUTIVE_FAILURES
    /\ (m.last_bootstrap # NoTime
            => elapsed_secs(m.last_bootstrap, now) >= MIN_BOOTSTRAP_SPACING)

\* error.to_string().contains(..)
contains_rsa(text)     == text \in {"rsa Timeout", "rsa"}
contains_timeout(text) == text \in {"Timeout", "rsa Timeout"}

NoQuery == [key |-> "none", state |-> "none", found_a_record |-> FALSE, emitted |-> FALSE]
NoApiRet == [call |-> "none", result |-> "none", count |-> 0, late |-> FALSE]
\* history of the periodic bootstrap attempts: the time of the latest one,
\* whether no connection was established since, and a bit flipped by each
NoPeriodic == [at |-> NoTime, quiet |-> TRUE, flip |-> FALSE]

DhtInit ==
    /\ dht_now = 0
    /\ bootstrap_interval = NewInterval(BASE_BOOTSTRAP_INTERVAL, 0)
    /\ metrics = DefaultMetrics
    /\ connected_peers = {}
    /\ open_conns = [p \in Peers |-> 0]
    /\ task_pc = "running"
    /\ shutdown_ack = NoCaller
    /\ pending_event = NoEvent
    /\ cmd_chan = << >>
    /\ event_chan = << >>
    /\ queries = [i \in 1..MaxSearches |-> NoQuery]
    /\ api_ret = [c \in Callers |-> NoApiRet]
    /\ shutdown_ok = FALSE
    /\ periodic = NoPeriodic

\* event_tx.send(ev).await as the last statement of a handler: the event is
\* queued, or the task stays suspended in the send while the channel is full
EmitEvent(ev) ==
    IF Len(event_chan) < EventCap
    THEN /\ event_chan' = Append(event_chan, ev)
         /\ UNCHANGED <<pending_event, task_pc>>
    ELSE /\ pending_event' = ev
         /\ task_pc' = "sending"
         /\ UNCHANGED event_chan

\* the suspended send completes once the receiver has made room
SendPending ==
    /\ task_pc = "sending"
    /\ Len(event_chan) < EventCap
    /\ event_chan' = Append(event_chan, pending_event)
    /\ pending_event' = NoEvent
    /\ task_pc' = "running"
    /\ UNCHANGED <<dht_now, bootstrap_interval, metrics, connected_peers, open_conns,
                   shutdown_ack, cmd_chan, queries, api_ret,
                   shutdown_ok, periodic>>

\* DhtService::drain_events(max)
DrainEvents(max) ==
    /\ Len(event_chan) > 0
    /\ event_chan' = SubSeq(event_chan, Min(max, Len(event_chan)) + 1, Len(event_chan))
    /\ UNCHANGED <<dht_now, bootstrap_interval, metrics, connected_peers, open_conns,
                   task_pc, shutdown_ack, pending_event, cmd_chan, queries, api_ret, shutdown_ok, periodic>>

DhtClock ==
    /\ dht_now + TimeStep <= MaxDhtTime
    /\ dht_now' = dht_now + TimeStep
    /\ UNCHANGED <<bootstrap_interval, metrics, connected_peers, open_conns, task_pc,
                   shutdown_ack, pending_event, cmd_chan, event_chan, queries, api_ret, shutdown_ok, periodic>>

\* lines 154-193: the bootstrap_interval.tick() branch. `locked` is the
\* outcome of metrics.try_lock(), which fails while metrics_snapshot holds
\* the mutex on another thread.
Tick(locked) ==
    /\ task_pc = "running"
    /\ dht_now >= bootstrap_interval.deadline
    /\ IF should_bootstrap(Cardinality(connected_peers), metrics, dht_now)
       THEN /\ metrics' = IF locked THEN [metrics EXCEPT !.last_bootstrap = dht_now]
                          ELSE metrics
            /\ periodic' = [at |-> dht_now, quiet |-> TRUE, flip |-> ~periodic.flip]
            /\ bootstrap_interval' = NextTick(bootstrap_interval)
       ELSE /\ bootstrap_interval' =
                  IF locked /\ metrics.consecutive_bootstrap_failures > 0
                  THEN NewInterval(backoff_interval(metrics.consecutive_bootstrap_failures),
                                   dht_now)
                  ELSE NextTick(bootstrap_interval)
            /\ UNCHANGED <<metrics, periodic>>
    /\ UNCHANGED <<dht_now, connected_peers, open_conns, task_pc, shutdown_ack,
                   pending_event, cmd_chan, event_chan, queries, api_ret, shutdown_ok>>

\* lines 275-297: SwarmEvent::ConnectionEstablished, one event per
\* connection; locked is the outcome of metrics.try_lock(), limit the number
\* of connections the network opens to one peer
ConnectionEstablished(peer, locked, limit) ==
    /\ task_pc = "running"
    /\ open_conns[peer] < limit
    /\ open_conns' = [open_conns EXCEPT ![peer] = @ + 1]
    /\ connected_peers' = connected_peers \cup {peer}
    /\ metrics' =
         IF locked
         THEN IF Cardinality(connected_peers \cup {peer}) > 0
              THEN [metrics EXCEPT !.last_success = dht_now,
                                   !.consecutive_bootstrap_failures = 0,
                                   !.last_successful_bootstrap = dht_now]
              ELSE [metrics EXCEPT !.last_success = dht_now]
         ELSE metrics
    /\ periodic' = [periodic EXCEPT !.quiet = FALSE]
    /\ EmitEvent(Event("PeerConnected", "peer"))
    /\ UNCHANGED <<dht_now, bootstrap_interval, shutdown_ack, cmd_chan, queries,
                   api_ret, shutdown_ok>>

\* lines 298-308: SwarmEvent::ConnectionClosed
ConnectionClosed(peer) ==
    /\ task_pc = "running"
    /\ open_conns[peer] > 0
    /\ open_conns' = [open_conns EXCEPT ![peer] = @ - 1]
    /\ connected_peers' = connected_peers \ {peer}
    /\ EmitEvent(Event("PeerDisconnected", "peer"))
    /\ UNCHANGED <<dht_now, bootstrap_interval, metrics, shutdown_ack, cmd_chan,
                   queries, api_ret, shutdown_ok, periodic>>

\* lines 315-342: SwarmEvent::OutgoingConnectionError; locked1 and locked2
\* are the outcomes of the two try_lock calls
OutgoingConnectionError(has_peer, text, locked1, locked2) ==
    /\ task_pc = "running"
    /\ metrics.bootstrap_failures < MaxErrors
    /\ metrics.consecutive_bootstrap_failures < MAX_CONSECUTIVE_FAILURES
    /\ LET m1 == IF locked1
                 THEN [metrics EXCEPT
                          !.last_error = text,
                          !.last_error_at = dht_now,
                          !.bootstrap_failures = @ + 1,
                          !.consecutive_bootstrap_failures = @ + 1]
                 ELSE metrics
           m2 == IF has_peer /\ ~contains_rsa(text) /\ contains_timeout(text) /\ locked2
                 THEN [m1 EXCEPT !.consecutive_bootstrap_failures = @ + 1]
                 ELSE m1
       IN metrics' = m2
    /\ EmitEvent(Event("Error", "Connection failed"))
    /\ UNCHANGED <<dht_now, bootstrap_interval, connected_peers, open_conns,
                   shutdown_ack, cmd_chan, queries, api_ret,
                   shutdown_ok, periodic>>

\* lines 343-352: SwarmEvent::IncomingConnectionError
IncomingConnectionError(text, locked) ==
    /\ task_pc = "running"
    /\ metrics.bootstrap_failures < MaxErrors
    /\ metrics' = IF locked
                  THEN [metrics EXCEPT !.last_error = text,
                                       !.last_error_at = dht_now,
                                       !.bootstrap_failures = @ + 1]
                  ELSE metrics
    /\ UNCHANGED <<dht_now, bootstrap_interval, connected_peers, open_conns, task_pc,
                   shutdown_ack, pending_event, cmd_chan, event_chan, queries, api_ret, shutdown_ok, periodic>>


(* ---------------- DhtService: the callers' side ---------------- *)
chan_send_front(chan, msg) == <<msg>> \o chan

\* mpsc::Sender::send once a permit is there: the message goes to the back
chan_send(chan, msg) == Append(chan, msg)

Pending(c) == api_ret[c].result = "pending"
Returned(c, call, result, count) ==
    [api_ret EXCEPT ![c] = [call |-> call, result |-> result, count |-> count,
                            late |-> IF Pending(c) THEN api_ret[c].late ELSE shutdown_ok]]
Waiting(c, call) ==
    [api_ret EXCEPT ![c] = [call |-> call, result |-> "pending", count |-> 0,
                            late |-> shutdown_ok]]
\* the receiver half of the command channel has been dropped
CmdClosed == task_pc = "exited"
SearchesStarted ==
    Cardinality({i \in 1..MaxSearches : queries[i].state # "none"})
      + Cardinality({i \in 1..Len(cmd_chan) : cmd_chan[i].type = "SearchFile"})

\* DhtService::search_file: cmd_tx.send(SearchFile).await.map_err(..)
SearchFileCall(c, h) ==
    /\ ~Pending(c)
    /\ SearchesStarted < MaxSearches
    /\ IF CmdClosed
       THEN /\ api_ret' = Returned(c, "search_file", "err", 0)
            /\ UNCHANGED cmd_chan
       ELSE /\ Len(cmd_chan) < CmdCap
            /\ cmd_chan' = chan_send(cmd_chan, Cmd("SearchFile", h, c))
            /\ api_ret' = Returned(c, "search_file", "ok", 0)
    /\ UNCHANGED <<dht_now, bootstrap_interval, metrics, connected_peers, open_conns,
                   task_pc, shutdown_ack, pending_event, event_chan, queries,
                   shutdown_ok, periodic>>

\* DhtService::publish_file: cmd_tx.send(PublishFile).await.map_err(..)
PublishFileCall(c, h) ==
    /\ ~Pending(c)
    /\ IF CmdClosed
       THEN /\ api_ret' = Returned(c, "publish_file", "err", 0)
            /\ UNCHANGED cmd_chan
       ELSE /\ Len(cmd_chan) < CmdCap
            /\ cmd_chan' = chan_send(cmd_chan, Cmd("PublishFile", h, c))
            /\ api_ret' = Returned(c, "publish_file", "ok", 0)
    /\ UNCHANGED <<dht_now, bootstrap_interval, metrics, connected_peers, open_conns,
                   task_pc, shutdown_ack, pending_event, event_chan, queries,
                   shutdown_ok, periodic>>

\* DhtService::connect_peer: cmd_tx.send(ConnectPeer).await.map_err(..)
ConnectPeerCall(c, addr) ==
    /\ ~Pending(c)
    /\ IF CmdClosed
       THEN /\ api_ret' = Returned(c, "connect_peer", "err", 0)
            /\ UNCHANGED cmd_chan
       ELSE /\ Len(cmd_chan) < CmdCap
            /\ cmd_chan' = chan_send(cmd_chan, Cmd("ConnectPeer", addr, c))
            /\ api_ret' = Returned(c, "connect_peer", "ok", 0)
    /\ UNCHANGED <<dht_now, bootstrap_interval, metrics, connected_peers, open_conns,
                   task_pc, shutdown_ack, pending_event, event_chan, queries,
                   shutdown_ok, periodic>>

\* DhtService::get_peer_count: 0 when the send fails, else await the reply
GetPeerCountCall(c) ==
    /\ ~Pending(c)
    /\ IF CmdClosed
       THEN /\ api_ret' = Returned(c, "get_peer_count", "ok", 0)
            /\ UNCHANGED cmd_chan
       ELSE /\ Len(cmd_chan) < CmdCap
            /\ cmd_chan' = chan_send(cmd_chan, Cmd("GetPeerCount", "none", c))
            /\ api_ret' = Waiting(c, "get_peer_count")
    /\ UNCHANGED <<dht_now, bootstrap_interval, metrics, connected_peers, open_conns,
                   task_pc, shutdown_ack, pending_event, event_chan, queries,
                   shutdown_ok, periodic>>

\* DhtService::shutdown: Ok(()) when the send fails, else await the ack
ShutdownCall(c) ==
    /\ ~Pending(c)
    /\ IF CmdClosed
       THEN /\ api_ret' = Returned(c, "shutdown", "ok", 0)
            /\ shutdown_ok' = TRUE
            /\ UNCHANGED cmd_chan
       ELSE /\ Len(cmd_chan) < CmdCap
            /\ cmd_chan' = chan_send(cmd_chan, Cmd("Shutdown", "none", c))
            /\ api_ret' = Waiting(c, "shutdown")
            /\ UNCHANGED shutdown_ok
    /\ UNCHANGED <<dht_now, bootstrap_interval, metrics, connected_peers, open_conns,
                   task_pc, shutdown_ack, pending_event, event_chan, queries, periodic>>

\* DhtService::metrics_snapshot: peer_count = connected_peers.lock().await.len()
MetricsSnapshot(c) ==
    /\ ~Pending(c)
    /\ api_ret' = Returned(c, "metrics_snapshot", "ok", Cardinality(connected_peers))
    /\ UNCHANGED <<dht_now, bootstrap_interval, metrics, connected_peers, open_conns,
                   task_pc, shutdown_ack, pending_event, cmd_chan, event_chan, queries,
                   shutdown_ok, periodic>>

\* metrics_snapshot, line 700: `self.metrics.lock().await.clone()` holds the
\* metrics mutex while the DhtMetrics value is cloned ...
MetricsSnapshotLock(c) ==
    /\ ~Pending(c)
    /\ \A d \in Callers : ~(Pending(d) /\ api_ret[d].call = "metrics_snapshot")
    /\ api_ret' = Waiting(c, "metrics_snapshot")
    /\ UNCHANGED <<dht_now, bootstrap_interval, metrics, connected_peers, open_conns,
                   task_pc, shutdown_ack, pending_event, cmd_chan, event_chan, queries,
                   shutdown_ok, periodic>>

\* ... and lines 700-702: releases it, then reads connected_peers.len()
MetricsSnapshotDone(c) ==
    /\ Pending(c)
    /\ api_ret[c].call = "metrics_snapshot"
    /\ api_ret' = Returned(c, "metrics_snapshot", "ok", Cardinality(connected_peers))
    /\ UNCHANGED <<dht_now, bootstrap_interval, metrics, connected_peers, open_conns,
                   task_pc, shutdown_ack, pending_event, cmd_chan, event_chan, queries,
                   shutdown_ok, periodic>>

\* tokio Mutex::try_lock on the metrics mutex: Ok unless a guard is alive
metrics_try_lock ==
    ~\E c \in Callers : Pending(c) /\ api_ret[c].call = "metrics_snapshot"

(* ---------------- run_dht_node: the cmd_rx.recv() branch ---------------- *)
FreeQuery == CHOOSE i \in 1..MaxSearches :
                 /\ queries[i].state = "none"
                 /\ \A j \in 1..MaxSearches : queries[j].state = "none" => i <= j

Addrs == {"/ip4/10.0.0.1/tcp/4001", "not an address"}
\* addr.parse::<Multiaddr>().is_ok()
parses_as_multiaddr(addr) == addr = "/ip4/10.0.0.1/tcp/4001"

\* how the calls made while handling a command may turn out:
\* serde_json::to_vec and kademlia.put_record for PublishFile, the parse of
\* the address and swarm.dial for ConnectPeer
CmdOutcomes == {"ok", "serialize failed", "put_record failed", "dial failed",
                "invalid address"}
outcome_possible(cmd, outcome) ==
    CASE cmd.type = "PublishFile" ->
             outcome \in {"ok", "serialize failed", "put_record failed"}
      [] cmd.type = "ConnectPeer" ->
             IF parses_as_multiaddr(cmd.arg) THEN outcome \in {"ok", "dial failed"}
             ELSE outcome = "invalid address"
      [] OTHER -> outcome = "ok"

\* lines 195-262
RecvCmd(outcome) ==
    /\ task_pc = "running"
    /\ Len(cmd_chan) > 0
    /\ outcome_possible(Head(cmd_chan), outcome)
    /\ cmd_chan' = Tail(cmd_chan)
    /\ LET cmd == Head(cmd_chan) IN
       CASE cmd.type = "Shutdown" ->
              /\ shutdown_ack' = cmd.from
              /\ task_pc' = "exiting"
              /\ UNCHANGED <<queries, api_ret, pending_event, event_chan>>
         [] cmd.type = "PublishFile" ->
              /\ IF outcome = "ok"
                 THEN UNCHANGED <<pending_event, event_chan, task_pc>>
                 ELSE EmitEvent(Event("Error",
                          IF outcome = "put_record failed" THEN "Failed to publish"
                          ELSE "Failed to serialize metadata"))
              /\ UNCHANGED <<shutdown_ack, queries, api_ret>>
         [] cmd.type = "SearchFile" ->
              /\ queries' = [queries EXCEPT ![FreeQuery] =
                     [key |-> cmd.arg, state |-> "running",
                      found_a_record |-> FALSE, emitted |-> FALSE]]
              /\ UNCHANGED <<shutdown_ack, task_pc, api_ret, pending_event, event_chan>>
         [] cmd.type = "ConnectPeer" ->
              /\ IF outcome = "ok"
                 THEN UNCHANGED <<pending_event, event_chan, task_pc>>
                 ELSE EmitEvent(Event("Error",
                          IF outcome = "dial failed" THEN "Failed to connect"
                          ELSE "Invalid address"))
              /\ UNCHANGED <<shutdown_ack, queries, api_ret>>
         [] cmd.type = "GetPeerCount" ->
              /\ api_ret' = Returned(cmd.from, "get_peer_count", "ok",
                                     Cardinality(connected_peers))
              /\ UNCHANGED <<shutdown_ack, task_pc, queries, pending_event, event_chan>>
    /\ UNCHANGED <<dht_now, bootstrap_interval, metrics, connected_peers, open_conns,
                   shutdown_ok, periodic>>

(* ---------------- run_dht_node: the exit path, lines 362-367 ------------- *)
\* connected_peers.lock().await.clear()
ExitClear ==
    /\ task_pc = "exiting"
    /\ connected_peers' = {}
    /\ task_pc' = "cleared"
    /\ UNCHANGED <<dht_now, bootstrap_interval, metrics, open_conns, shutdown_ack,
                   pending_event, cmd_chan, event_chan, queries, api_ret, shutdown_ok,
                   periodic>>

\* ack.send(()) : the caller suspended in shutdown() returns Ok(())
ExitAck ==
    /\ task_pc = "cleared"
    /\ IF shutdown_ack # NoCaller
       THEN /\ api_ret' = Returned(shutdown_ack, "shutdown", "ok", 0)
            /\ shutdown_ok' = TRUE
       ELSE UNCHANGED <<api_ret, shutdown_ok>>
    /\ task_pc' = "returning"
    /\ UNCHANGED <<dht_now, bootstrap_interval, metrics, connected_peers, open_conns,
                   shutdown_ack, pending_event, cmd_chan, event_chan, queries, periodic>>

\* what a caller whose queued command is dropped unanswered gets back:
\* get_peer_count: rx.await.unwrap_or(0) ; shutdown: rx.await.map_err(..)?
dropped_reply(ret) ==
    IF ret.call = "get_peer_count" THEN [ret EXCEPT !.result = "ok", !.count = 0]
    ELSE [ret EXCEPT !.result = "err"]

\* the task function returns: cmd_rx and the swarm are dropped, and with
\* cmd_rx every command still queued, together with its reply sender
ExitDrop ==
    /\ task_pc = "returning"
    /\ task_pc' = "exited"
    /\ cmd_chan' = << >>
    /\ api_ret' = [c \in Callers |->
                      IF Pending(c) THEN dropped_reply(api_ret[c]) ELSE api_ret[c]]
    /\ open_conns' = [p \in Peers |-> 0]
    /\ UNCHANGED <<dht_now, bootstrap_interval, metrics, connected_peers, shutdown_ack,
                   pending_event, event_chan, queries, shutdown_ok, periodic>>

(* ---------------- handle_kademlia_event, lines 380-404 ------------------- *)
GetRecordResults == {"FoundRecord", "FoundOtherRecord", "FinishedWithNoAdditionalRecord",
                     "NotFound", "Timeout"}

\* the DhtEvent sent for a get_record result on `key`, NoEvent when none is
get_record_event(result, key) ==
    CASE result = "FoundRecord" -> Event("FileDiscovered", key)
      [] result = "FoundOtherRecord" -> NoEvent
      [] result = "FinishedWithNoAdditionalRecord" -> NoEvent
      [] result = "NotFound" -> Event("FileNotFound", key)
      [] OTHER -> NoEvent

\* what libp2p-kad may report next for a running get_record query
kad_may_report(q, result) ==
    CASE result \in {"FoundRecord", "FoundOtherRecord"} -> ~q.found_a_record
      [] result = "FinishedWithNoAdditionalRecord" -> q.found_a_record
      [] result = "NotFound" -> ~q.found_a_record
      [] OTHER -> TRUE

KademliaEvent(i, result) ==
    /\ task_pc = "running"
    /\ queries[i].state = "running"
    /\ kad_may_report(queries[i], result)
    /\ LET ev == get_record_event(result, queries[i].key) IN
       /\ queries' = [queries EXCEPT ![i] =
              [key |-> @.key,
               state |-> IF result \in {"FoundRecord", "FoundOtherRecord"}
                         THEN "running" ELSE "finished",
               found_a_record |-> @.found_a_record
                                  \/ result \in {"FoundRecord", "FoundOtherRecord"},
               emitted |-> @.emitted \/ ev # NoEvent]]
       /\ IF ev # NoEvent THEN EmitEvent(ev)
          ELSE UNCHANGED <<event_chan, pending_event, task_pc>>
    /\ UNCHANGED <<dht_now, bootstrap_interval, metrics, connected_peers, open_conns,
                   shutdown_ack, cmd_chan, api_ret, shutdown_ok, periodic>>

\* the node task over time, with connection errors. The metrics mutex may
\* be held by a concurrent metrics_snapshot when a tick is handled; the
\* connection and error handlers are taken with the mutex free.
DhtBootNext ==
    \/ DhtClock /\ UNCHANGED notDht
    \/ \E locked \in BOOLEAN : Tick(locked) /\ UNCHANGED notDht
    \/ \E p \in Peers : ConnectionEstablished(p, TRUE, MaxConns) /\ UNCHANGED notDht
    \/ \E p \in Peers : ConnectionClosed(p) /\ UNCHANGED notDht
    \/ \E hp \in BOOLEAN, t \in ErrTexts : OutgoingConnectionError(hp, t, TRUE, TRUE) /\ UNCHANGED notDht
    \/ \E t \in ErrTexts : IncomingConnectionError(t, TRUE) /\ UNCHANGED notDht
    \/ SendPending /\ UNCHANGED notDht
    \/ \E max \in 1..EventCap : DrainEvents(max) /\ UNCHANGED notDht

\* the node task's connection events next to callers of metrics_snapshot and
\* get_peer_count, with up to MaxPeerConns connections to one peer
DhtConnNext ==
    \/ \E p \in Peers : ConnectionEstablished(p, metrics_try_lock, MaxPeerConns)
                             /\ UNCHANGED notDht
    \/ \E p \in Peers : ConnectionClosed(p) /\ UNCHANGED notDht
    \/ \E hp \in BOOLEAN, t \in ErrTexts :
          OutgoingConnectionError(hp, t, metrics_try_lock, metrics_try_lock)
              /\ UNCHANGED notDht
    \/ SendPending /\ UNCHANGED notDht
    \/ \E max \in 1..EventCap : DrainEvents(max) /\ UNCHANGED notDht
    \/ MetricsSnapshotLock("a1") /\ UNCHANGED notDht
    \/ MetricsSnapshotDone("a1") /\ UNCHANGED notDht
    \/ GetPeerCountCall("a2") /\ UNCHANGED notDht
    \/ RecvCmd("ok") /\ UNCHANGED notDht

\* the node task and its callers before the first tick is taken, with no
\* connection errors
DhtCmdNext ==
    \/ \E p \in Peers, locked \in BOOLEAN : ConnectionEstablished(p, locked, MaxConns) /\ UNCHANGED notDht
    \/ \E p \in Peers : ConnectionClosed(p) /\ UNCHANGED notDht
    \/ SendPending /\ UNCHANGED notDht
    \/ \E max \in 1..EventCap : DrainEvents(max) /\ UNCHANGED notDht
    \/ \E c \in Callers, h \in FileHashes : SearchFileCall(c, h) /\ UNCHANGED notDht
    \/ \E c \in Callers : GetPeerCountCall(c) /\ UNCHANGED notDht
    \/ \E c \in Callers : ShutdownCall(c) /\ UNCHANGED notDht
    \/ \E c \in Callers : MetricsSnapshot(c) /\ UNCHANGED notDht
    \/ RecvCmd("ok") /\ UNCHANGED notDht
    \/ ExitClear /\ UNCHANGED notDht
    \/ ExitAck /\ UNCHANGED notDht
    \/ ExitDrop /\ UNCHANGED notDht
    \/ \E i \in 1..MaxSearches, r \in GetRecordResults : KademliaEvent(i, r) /\ UNCHANGED notDht

(***************************************************************************)
(*                storage/src/chunks.rs : ChunkManager                     *)
(***************************************************************************)
CHUNK_SIZE  == 2       \* 256 * 1024 in the source, scaled down
MaxFileLen  == 4       \* longest plaintext file
MaxByte     == 1       \* plaintext bytes range over 0..MaxByte

CHUNK_VERSION == 1
HEADER_SIZE   == 64
METADATA_SIZE == 256
CHECKSUM_SIZE == 32
DIGEST_SIZE   == 32    \* a SHA-256 digest, [u8; 32]
NONCE_SIZE    == 12    \* the 96-bit AES-GCM nonce
IV_SIZE       == 16    \* ChunkMetadata.iv, [u8; 16]
TAG_SIZE      == 16    \* the AES-GCM authentication tag
Unknown       == -1    \* a number read from bytes that are not literal

\* A byte is a record: a literal value, or the i-th byte of a digest, of a
\* nonce or of a ciphertext, `of` naming what it was computed from.
B(v) == [src |-> "lit", i |-> v, of |-> << >>]
Bytes(vs) == [j \in 1..Len(vs) |-> B(vs[j])]
CHUNK_MAGIC == Bytes(<<67, 72, 78, 75>>)

Keys       == {1, 2}
Timestamps == {1, 2}
Plaintexts == UNION {[1..n -> {B(v) : v \in 0..MaxByte}] : n \in 0..MaxFileLen}

\* Sha256::finalize(): 32 bytes determined by the input, injectively
Sha256(data) == [j \in 1..DIGEST_SIZE |-> [src |-> "sha256", i |-> j, of |-> data]]
\* format!("{:x}", digest) and hex::decode
to_hex(digest) == [hex |-> digest]
hex_decode(s)  == s.hex

hash_chunk(data) == to_hex(Sha256(data))
\* hash_file: the file is fed to one hasher buffer by buffer
hash_file(data)  == to_hex(Sha256(data))

\* uN::to_le_bytes for an n-byte integer
RECURSIVE to_le_bytes(_, _)
to_le_bytes(v, n) == IF n = 0 THEN << >> ELSE <<B(v % 256)>> \o to_le_bytes(v \div 256, n - 1)

RECURSIVE le_value(_)
le_value(bs) == IF bs = << >> THEN 0 ELSE bs[1].i + 256 * le_value(Tail(bs))
\* uN::from_le_bytes; the value is left Unknown when a byte is not literal
\* or when it does not fit in three bytes
from_le_bytes(bs) ==
    IF /\ \A j \in 1..Len(bs) : bs[j].src = "lit"
       /\ \A j \in 4..Len(bs) : bs[j].i = 0
    THEN le_value(SubSeq(bs, 1, Min(3, Len(bs))))
    ELSE Unknown

\* Aes256Gcm::generate_nonce(&mut OsRng): the bytes of fresh nonce number n
nonce_bytes(n) == [j \in 1..NONCE_SIZE |-> [src |-> "nonce", i |-> j, of |-> <<B(n)>>]]
\* cipher.encrypt(nonce, data): ciphertext and tag, len(data) + 16 bytes
aes_gcm_encrypt(key, n, data) ==
    [j \in 1..(Len(data) + TAG_SIZE) |->
        [src |-> "aes_gcm", i |-> j, of |-> <<B(key), B(n)>> \o data]]
Failed == [ok |-> FALSE, data |-> << >>]
\* cipher.decrypt(nonce, ciphertext): succeeds on exactly the output of an
\* encryption under the same key and nonce
aes_gcm_decrypt(key, nonce, ct) ==
    IF /\ Len(ct) >= TAG_SIZE
       /\ ct[1].src = "aes_gcm"
       /\ ct = aes_gcm_encrypt(ct[1].of[1].i, ct[1].of[2].i,
                               SubSeq(ct[1].of, 3, Len(ct[1].of)))
       /\ ct[1].of[1].i = key
       /\ nonce = nonce_bytes(ct[1].of[2].i)
    THEN [ok |-> TRUE, data |-> SubSeq(ct[1].of, 3, Len(ct[1].of))]
    ELSE Failed

\* lines 158-172: the ciphertext and the nonce padded to 16 bytes
encrypt_chunk(data, key, n) ==
    [encrypted_data |-> aes_gcm_encrypt(key, n, data),
     nonce |-> nonce_bytes(n) \o Bytes([j \in 1..(IV_SIZE - NONCE_SIZE) |-> 0])]

\* lines 175-183: the nonce is the first 12 bytes of the 16-byte array
decrypt_chunk(encrypted_data, key, nonce) ==
    aes_gcm_decrypt(key, SubSeq(nonce, 1, NONCE_SIZE), encrypted_data)

\* `while chunk_file.len() < size { chunk_file.push(0) }`
pad_to(bytes, size) ==
    IF Len(bytes) < size
    THEN bytes \o Bytes([j \in 1..(size - Len(bytes)) |-> 0])
    ELSE bytes

\* lines 215-254
create_chunk_file(header, metadata, encrypted_data) ==
    LET hdr == pad_to(header.magic \o to_le_bytes(header.version, 2)
                        \o to_le_bytes(header.chunk_index, 4)
                        \o to_le_bytes(header.total_chunks, 4)
                        \o header.file_hash \o header.chunk_hash,
                      HEADER_SIZE)
        metadata_start == Len(hdr)
        meta == pad_to(hdr \o metadata.iv \o <<B(metadata.compression_type)>>
                         \o to_le_bytes(metadata.original_size, 8)
                         \o to_le_bytes(metadata.compressed_size, 8)
                         \o to_le_bytes(metadata.timestamp, 8),
                       metadata_start + METADATA_SIZE)
        body == meta \o encrypted_data
    IN body \o hex_decode(hash_chunk(body))

\* chunk_data[a..b] of the source (0-based, b exclusive)
Slice(bytes, a, b) == SubSeq(bytes, a + 1, b)

\* a plausible slip: validate_chunk checks the length of the frame only
validate_chunk_length_only(chunk_data) ==
    Len(chunk_data) >= HEADER_SIZE + METADATA_SIZE + CHECKSUM_SIZE
\* lines 282-296
validate_chunk(chunk_data) ==
    IF Len(chunk_data) < HEADER_SIZE + METADATA_SIZE + CHECKSUM_SIZE
    THEN FALSE
    ELSE LET data_without_checksum == Slice(chunk_data, 0, Len(chunk_data) - CHECKSUM_SIZE)
             stored_checksum == Slice(chunk_data, Len(chunk_data) - CHECKSUM_SIZE,
                                      Len(chunk_data))
         IN stored_checksum = hex_decode(hash_chunk(data_without_checksum))

\* lines 332-364 (the caller has checked the length)
extract_metadata(chunk_data) ==
    LET metadata_start == HEADER_SIZE
        metadata_slice == Slice(chunk_data, metadata_start, metadata_start + METADATA_SIZE)
    IN [iv |-> Slice(metadata_slice, 0, 16),
        compression_type |-> from_le_bytes(Slice(metadata_slice, 16, 17)),
        original_size |-> from_le_bytes(Slice(metadata_slice, 17, 25)),
        compressed_size |-> from_le_bytes(Slice(metadata_slice, 25, 33)),
        timestamp |-> from_le_bytes(Slice(metadata_slice, 33, 41))]

\* lines 367-376 (the caller has checked the length)
extract_encrypted_data(chunk_data) ==
    LET data_start == HEADER_SIZE + METADATA_SIZE
        data_end == Len(chunk_data) - CHECKSUM_SIZE
    IN Slice(chunk_data, data_start, data_end)

\* sorted_chunks.sort_by_key(|c| c.index): stable insertion by index
RECURSIVE sort_by_index(_)
sort_by_index(cs) ==
    IF cs = << >> THEN << >>
    ELSE LET rest == sort_by_index(Tail(cs))
             lower == {j \in 1..Len(rest) : rest[j].index < cs[1].index}
             k == Cardinality(lower)
         IN SubSeq(rest, 1, k) \o <<cs[1]>> \o SubSeq(rest, k + 1, Len(rest))

NoChunkFile == [exists |-> FALSE, data |-> << >>]

\* save_chunk: File::create(storage_path.join(chunk_hash)) and write_all, which
\* replaces a file of the same name
save_chunk(files, chunk_hash, chunk_file_data) ==
    {f \in files : f.name # chunk_hash} \cup {[name |-> chunk_hash, data |-> chunk_file_data]}

\* load_chunk: the bytes of storage_path.join(chunk_hash), an error if it is absent
load_chunk(files, chunk_hash) ==
    IF \E f \in files : f.name = chunk_hash
    THEN [exists |-> TRUE, data |-> (CHOOSE f \in files : f.name = chunk_hash).data]
    ELSE NoChunkFile

total_chunks_floor(file_size) == file_size \div CHUNK_SIZE

\* `(file_size + chunk_size - 1) / chunk_size`
total_chunks(file_size) == (file_size + CHUNK_SIZE - 1) \div CHUNK_SIZE

NoInput == [data |-> << >>, key |-> 0]

CkInit ==
    /\ ck_input = NoInput
    /\ ck_pc = "idle"
    /\ ck_index = 0
    /\ ck_chunks = << >>
    /\ ck_disk = {}
    /\ ck_nonce = 0
    /\ ck_todo = << >>
    /\ ck_out = NoChunkFile
    /\ ck_result = "none"

\* chunk_file, lines 68-91: the file is opened, its size and hash are taken
\* and the storage directory is created
ChunkFileBegin(data, key) ==
    /\ ck_pc = "idle"
    /\ ck_input' = [data |-> data, key |-> key]
    /\ ck_pc' = "chunking"
    /\ UNCHANGED <<ck_index, ck_chunks, ck_disk, ck_nonce, ck_todo, ck_out, ck_result>>

\* chunk_file, lines 93-151: one turn of the read loop. file.read fills the
\* buffer with the next chunk_size bytes, fewer at the end of the file.
ChunkFileStep(timestamp) ==
    /\ ck_pc = "chunking"
    /\ LET P == ck_input.data
           start == ck_index * CHUNK_SIZE
           bytes_read == Max(0, Min(CHUNK_SIZE, Len(P) - start))
       IN IF bytes_read = 0
          THEN /\ ck_pc' = "chunked"
               /\ UNCHANGED <<ck_index, ck_chunks, ck_disk, ck_nonce>>
          ELSE LET chunk_data == SubSeq(P, start + 1, start + bytes_read)
                   chunk_hash == hash_chunk(chunk_data)
                   file_hash == hash_file(P)
                   enc == encrypt_chunk(chunk_data, ck_input.key, ck_nonce)
                   header == [magic |-> CHUNK_MAGIC, version |-> CHUNK_VERSION,
                              chunk_index |-> ck_index,
                              total_chunks |-> total_chunks(Len(P)),
                              file_hash |-> hex_decode(file_hash),
                              chunk_hash |-> hex_decode(chunk_hash)]
                   metadata == [iv |-> enc.nonce, compression_type |-> 0,
                                original_size |-> bytes_read,
                                compressed_size |-> Len(enc.encrypted_data),
                                timestamp |-> timestamp]
                   chunk_file_data == create_chunk_file(header, metadata,
                                                        enc.encrypted_data)
               IN /\ ck_disk' = save_chunk(ck_disk, chunk_hash, chunk_file_data)
                  /\ ck_chunks' = Append(ck_chunks,
                        [index |-> ck_index, hash |-> chunk_hash, size |-> bytes_read,
                         encrypted_size |-> Len(chunk_file_data),
                         total_chunks |-> total_chunks(Len(P)),
                         file_hash |-> file_hash])
                  /\ ck_index' = ck_index + 1
                  /\ ck_nonce' = ck_nonce + 1
                  /\ UNCHANGED ck_pc
    /\ UNCHANGED <<ck_input, ck_todo, ck_out, ck_result>>

\* reassemble_file, lines 380-385: File::create(output_path) and the sort
ReassembleBegin ==
    /\ ck_pc = "chunked"
    /\ ck_out' = [exists |-> TRUE, data |-> << >>]
    /\ ck_todo' = sort_by_index(ck_chunks)
    /\ ck_pc' = "reassembling"
    /\ UNCHANGED <<ck_input, ck_index, ck_chunks, ck_disk, ck_nonce, ck_result>>

\* reassemble_file, lines 387-405: one turn of the loop over sorted_chunks
ReassembleStep ==
    /\ ck_pc = "reassembling"
    /\ ck_todo # << >>
    /\ LET chunk_info == Head(ck_todo)
           file == load_chunk(ck_disk, chunk_info.hash)
           chunk_data == file.data
           decrypted == decrypt_chunk(extract_encrypted_data(chunk_data), ck_input.key,
                                      extract_metadata(chunk_data).iv)
       IN IF ~file.exists
          THEN ck_result' = "err_load" /\ ck_pc' = "done" /\ UNCHANGED <<ck_out, ck_todo>>
          ELSE IF ~validate_chunk(chunk_data)
          THEN ck_result' = "err_validation" /\ ck_pc' = "done"
               /\ UNCHANGED <<ck_out, ck_todo>>
          ELSE IF ~decrypted.ok
          THEN ck_result' = "err_decrypt" /\ ck_pc' = "done"
               /\ UNCHANGED <<ck_out, ck_todo>>
          ELSE /\ ck_out' = [ck_out EXCEPT !.data = @ \o decrypted.data]
               /\ ck_todo' = Tail(ck_todo)
               /\ UNCHANGED <<ck_result, ck_pc>>
    /\ UNCHANGED <<ck_input, ck_index, ck_chunks, ck_disk, ck_nonce>>

\* reassemble_file, lines 408-411: sync_all and Ok(())
ReassembleEnd ==
    /\ ck_pc = "reassembling"
    /\ ck_todo = << >>
    /\ ck_result' = "ok"
    /\ ck_pc' = "done"
    /\ UNCHANGED <<ck_input, ck_index, ck_chunks, ck_disk, ck_nonce, ck_todo, ck_out>>

CkNext ==
    \/ \E d \in Plaintexts, k \in Keys : ChunkFileBegin(d, k) /\ UNCHANGED notCk
    \/ \E ts \in Timestamps : ChunkFileStep(ts) /\ UNCHANGED notCk
    \/ ReassembleBegin /\ UNCHANGED notCk
    \/ ReassembleStep /\ UNCHANGED notCk
    \/ ReassembleEnd /\ UNCHANGED notCk

(***************************************************************************)
(*          src-tauri/src/manager.rs : store_file_with_manifest            *)
(***************************************************************************)
MgChunkSize  == 1      \* ChunkManager.chunk_size, 1024 * 1024 by default, scaled down
MgMaxFileLen == 2      \* longest ingested file
MgMaxIngests == 2      \* store_file_with_manifest calls in one run

MgBytes      == {B(0), B(1)}
\* the files ingested: nothing in manager.rs reads a byte's value, so the two
\* values are interchangeable and every file begins with the first of them
MgPlaintexts == {p \in UNION {[1..n -> MgBytes] : n \in 0..MgMaxFileLen} :
                    Len(p) = 0 \/ p[1] = B(0)}
MgFileNames  == {[stem |-> "a", ext |-> "txt"]}
NoKey        == 0      \* aes_key = None

\* format!("{:x}", Sha256(data)): the hex digest, an injective function of
\* the bytes
manager_hash_chunk(data) == [sha256_hex |-> data]
manager_hash_file(data)  == [sha256_hex |-> data]

\* lines 366-371: chunks/<first two hex characters>/<hash>
get_chunk_path(chunk_hash) ==
    [subdir |-> [first2 |-> chunk_hash], stem |-> chunk_hash, ext |-> ""]
\* Path::with_extension("tmp")
with_extension_tmp(path) == [path EXCEPT !.ext = "tmp"]

\* lines 447-461
detect_mime_type(ext) ==
    CASE ext = "txt" -> "text/plain"
      [] ext = "pdf" -> "application/pdf"
      [] ext \in {"jpg", "jpeg"} -> "image/jpeg"
      [] ext = "png" -> "image/png"
      [] ext = "mp4" -> "video/mp4"
      [] ext = "zip" -> "application/zip"
      [] ext = "json" -> "application/json"
      [] OTHER -> "application/octet-stream"

\* lines 527-534: the nonce followed by ciphertext and tag
manager_encrypt_chunk(data, key, n) == nonce_bytes(n) \o aes_gcm_encrypt(key, n, data)

\* chunk_path.exists()
path_exists(files, path) == \E f \in files : f.path = path
\* A plausible slip: the deduplication test is lost and every chunk is
\* taken to be new.
chunk_exists_never(files, chunk_hash) == FALSE
\* line 127: `if chunk_path.exists()`
chunk_exists(files, chunk_hash) == path_exists(files, get_chunk_path(chunk_hash))
\* fs::metadata(&chunk_path).len()
file_len(files, path) == Len((CHOOSE f \in files : f.path = path).data)

\* a file written under `path`, replacing what was there
write_file(files, path, data, at) ==
    {f \in files : f.path # path} \cup {[path |-> path, data |-> data, written |-> at]}

\* lines 374-408: write <path>.tmp, then rename it over <path>; `outcome`
\* names the step that fails, if any
save_chunk_atomic(files, hash, data, at, outcome) ==
    LET chunk_path == get_chunk_path(hash)
        temp_path == with_extension_tmp(chunk_path)
    IN CASE outcome = "err_create" -> files
         [] outcome = "err_write" -> write_file(files, temp_path, << >>, at)
         [] outcome = "err_rename" -> write_file(files, temp_path, data, at)
         [] OTHER -> write_file({f \in files : f.path # temp_path}, chunk_path, data, at)

calculate_manifest_hash_without_chunks(manifest) ==
    [sha256_of_json |-> [manifest EXCEPT !.manifest_hash = "", !.chunks = << >>]]

\* lines 435-445: SHA-256 of the manifest serialized with an empty hash field
calculate_manifest_hash(manifest) ==
    [sha256_of_json |-> [manifest EXCEPT !.manifest_hash = ""]]

NoManifest == [file_hash |-> "", chunks |-> << >>]

new_chunk_info_offset_after(index, hash, bytes_read, encrypted_size, offset) ==
    [index |-> index, hash |-> hash, size |-> bytes_read,
     encrypted_size |-> encrypted_size, offset |-> offset + bytes_read]

\* lines 147-153: the ChunkInfo pushed for one chunk
new_chunk_info(index, hash, bytes_read, encrypted_size, offset) ==
    [index |-> index, hash |-> hash, size |-> bytes_read,
     encrypted_size |-> encrypted_size, offset |-> offset]

\* Path::with_extension("tmp") of manifests/<file_hash>.json
manifest_temp_path(file_hash) == [tmp_of |-> file_hash]

\* a file written under manifests/: `complete` tells a whole JSON document
\* from a truncated one, `altered` marks a file changed behind the manager
write_manifest(manifests, path, manifest, complete) ==
    {f \in manifests : f.path # path}
       \cup {[path |-> path, manifest |-> manifest, complete |-> complete,
               altered |-> FALSE]}

save_manifest_in_place(manifests, file_hash, manifest, outcome) ==
    CASE outcome = "err_serialize" -> manifests
      [] outcome = "err_write" -> write_manifest(manifests, file_hash, manifest, FALSE)
      [] OTHER -> write_manifest(manifests, file_hash, manifest, TRUE)

\* lines 418-432: the JSON is written to <file_hash>.tmp, which is then
\* renamed to <file_hash>.json; `outcome` names the step that fails or at
\* which the process stops, if any
save_manifest(manifests, file_hash, manifest, outcome) ==
    LET temp_path == manifest_temp_path(file_hash)
    IN CASE outcome = "err_serialize" -> manifests
         [] outcome = "err_write" -> write_manifest(manifests, temp_path, manifest, FALSE)
         [] outcome = "err_rename" -> write_manifest(manifests, temp_path, manifest, TRUE)
         [] OTHER -> write_manifest({f \in manifests : f.path # temp_path},
                                    file_hash, manifest, TRUE)

\* lines 272-287: read_to_string, from_str, then the integrity check
load_manifest(manifests, file_hash) ==
    IF ~\E f \in manifests : f.path = file_hash
    THEN [result |-> "err_read", manifest |-> NoManifest]
    ELSE LET f == CHOOSE f \in manifests : f.path = file_hash
         IN IF ~f.complete
            THEN [result |-> "err_parse", manifest |-> NoManifest]
            ELSE IF calculate_manifest_hash(f.manifest) # f.manifest.manifest_hash
            THEN [result |-> "err_integrity", manifest |-> NoManifest]
            ELSE [result |-> "ok", manifest |-> f.manifest]

\* lines 290-301: the hashes of the listed chunks with no file under chunks/
verify_chunks_available(manifest, files) ==
    LET missing[n \in 0..Len(manifest.chunks)] ==
            IF n = 0 THEN << >>
            ELSE IF ~path_exists(files, get_chunk_path(manifest.chunks[n].hash))
            THEN Append(missing[n - 1], manifest.chunks[n].hash)
            ELSE missing[n - 1]
    IN missing[Len(manifest.chunks)]

NoIngest == [file |-> [name |-> [stem |-> "", ext |-> ""], data |-> << >>],
             encrypt |-> FALSE, aes_key |-> NoKey, file_hash |-> "",
             index |-> 0, offset |-> 0, chunks |-> << >>]
NoHist == [valid |-> FALSE, twice |-> FALSE, data |-> << >>,
           manifest |-> NoManifest, files |-> {},
           prev_manifest |-> NoManifest, prev_files |-> {}]

MgInit ==
    /\ mg_files = {}
    /\ mg_manifests = {}
    /\ mg_pc = "idle"
    /\ mg_op = NoIngest
    /\ mg_clock = 0
    /\ mg_ret = "none"
    /\ mg_hist = NoHist

\* an Err return of store_file_with_manifest
MgFail(files) ==
    /\ mg_files' = files
    /\ mg_pc' = "idle"
    /\ mg_op' = NoIngest
    /\ mg_ret' = "err"
    /\ mg_hist' = NoHist
    /\ UNCHANGED mg_manifests

\* lines 86-116: directories, file hash, AES key, File::open
IngestBegin(name, data, encrypt, ok) ==
    /\ mg_pc = "idle"
    /\ mg_clock < MgMaxIngests
    /\ mg_clock' = mg_clock + 1
    /\ IF ok
       THEN /\ mg_op' = [file |-> [name |-> name, data |-> data],
                         encrypt |-> encrypt,
                         aes_key |-> IF encrypt THEN mg_clock + 1 ELSE NoKey,
                         file_hash |-> manager_hash_file(data),
                         index |-> 0, offset |-> 0, chunks |-> << >>]
            /\ mg_pc' = "chunks"
            /\ mg_ret' = "none"
            /\ UNCHANGED <<mg_files, mg_manifests, mg_hist>>
       ELSE MgFail(mg_files)

\* lines 118-159: one turn of the read loop
IngestChunk(outcome) ==
    /\ mg_pc = "chunks"
    /\ LET P == mg_op.file.data
           bytes_read == Min(MgChunkSize, Len(P) - mg_op.offset)
           chunk_data == SubSeq(P, mg_op.offset + 1, mg_op.offset + bytes_read)
           chunk_hash == manager_hash_chunk(chunk_data)
           chunk_path == get_chunk_path(chunk_hash)
           exists == chunk_exists(mg_files, chunk_hash)
           \* Aes256Gcm::generate_nonce(&mut OsRng), line 529: a nonce no other
           \* chunk of this or an earlier call was given
           nonce == mg_clock * (MgMaxFileLen + 1) + mg_op.index
           data == IF mg_op.aes_key # NoKey
                   THEN manager_encrypt_chunk(chunk_data, mg_op.aes_key, nonce)
                   ELSE chunk_data
           encrypted_size == IF exists THEN file_len(mg_files, chunk_path) ELSE Len(data)
       IN /\ bytes_read > 0
          /\ IF outcome = "err_read"
             THEN MgFail(mg_files)
             ELSE IF exists
             THEN /\ outcome = "ok"
                  /\ mg_op' = [mg_op EXCEPT
                        !.chunks = Append(@, new_chunk_info(mg_op.index, chunk_hash, bytes_read,
                                                 encrypted_size, mg_op.offset)),
                        !.index = @ + 1, !.offset = @ + bytes_read]
                  /\ UNCHANGED <<mg_files, mg_manifests, mg_pc, mg_ret, mg_hist>>
             ELSE IF outcome # "ok"
             THEN MgFail(save_chunk_atomic(mg_files, chunk_hash, data, mg_clock, outcome))
             ELSE /\ mg_files' = save_chunk_atomic(mg_files, chunk_hash, data, mg_clock, outcome)
                  /\ mg_op' = [mg_op EXCEPT
                        !.chunks = Append(@, new_chunk_info(mg_op.index, chunk_hash, bytes_read,
                                                 encrypted_size, mg_op.offset)),
                        !.index = @ + 1, !.offset = @ + bytes_read]
                  /\ UNCHANGED <<mg_manifests, mg_pc, mg_ret, mg_hist>>
    /\ UNCHANGED mg_clock

\* lines 161-194: the read returns 0; the manifest is built, hashed and saved
\* (save_manifest, lines 418-432)
IngestFinish(outcome) ==
    /\ mg_pc = "chunks"
    /\ mg_op.offset = Len(mg_op.file.data)
    /\ LET m0 == [version |-> "1.0",
                  file_hash |-> mg_op.file_hash,
                  file_name |-> mg_op.file.name,
                  file_size |-> mg_op.offset,
                  mime_type |-> detect_mime_type(mg_op.file.name.ext),
                  chunk_size |-> MgChunkSize,
                  total_chunks |-> Len(mg_op.chunks),
                  chunks |-> mg_op.chunks,
                  encryption |-> IF mg_op.encrypt
                                 THEN [algorithm |-> "AES-256-GCM", bundle_of |-> mg_op.aes_key]
                                 ELSE [algorithm |-> "none", bundle_of |-> NoKey],
                  timestamps |-> [created |-> mg_clock, modified |-> mg_clock,
                                  accessed |-> mg_clock],
                  manifest_hash |-> ""]
           manifest == [m0 EXCEPT !.manifest_hash = calculate_manifest_hash(m0)]
       IN /\ mg_manifests' = save_manifest(mg_manifests, mg_op.file_hash, manifest, outcome)
          /\ mg_pc' = "idle"
          /\ mg_op' = NoIngest
          /\ IF outcome = "ok"
             THEN /\ mg_ret' = "ok"
                  /\ mg_hist' = [valid |-> TRUE,
                                 twice |-> mg_hist.valid /\ mg_hist.data = mg_op.file.data,
                                 data |-> mg_op.file.data,
                                 manifest |-> [file_hash |-> manifest.file_hash,
                                               chunks |-> manifest.chunks],
                                 files |-> mg_files,
                                 prev_manifest |-> mg_hist.manifest,
                                 prev_files |-> mg_hist.files]
             ELSE /\ mg_ret' = "err"
                  /\ mg_hist' = NoHist
    /\ UNCHANGED <<mg_files, mg_clock>>

ManifestOutcomes == {"ok", "err_serialize", "err_write", "err_rename"}

MgNext ==
    \/ \E n \in MgFileNames, d \in MgPlaintexts, e \in BOOLEAN, ok \in BOOLEAN :
           IngestBegin(n, d, e, ok) /\ UNCHANGED notMg
    \/ \E o \in {"ok", "err_read", "err_create", "err_write", "err_rename"} : IngestChunk(o) /\ UNCHANGED notMg
    \/ \E o \in ManifestOutcomes : IngestFinish(o) /\ UNCHANGED notMg

\* a byte value other than the given one
altered_byte(byte) ==
    IF byte.src = "lit" THEN B((byte.i + 1) % 256)
    ELSE [src |-> "altered", i |-> byte.i, of |-> <<byte>>]

CaInit == ck_altered = {}

\* between chunk_file and reassemble_file the byte at offset `pos` of the
\* stored frame `name` is changed; the trailing checksum is left as it is
AlterFrame(name, pos) ==
    /\ ck_pc = "chunked"
    /\ ck_altered = {}
    /\ LET file == load_chunk(ck_disk, name)
       IN /\ file.exists
          /\ pos < Len(file.data) - CHECKSUM_SIZE
          /\ ck_disk' = save_chunk(ck_disk, name,
                            [file.data EXCEPT ![pos + 1] = altered_byte(@)])
    /\ ck_altered' = {name}
    /\ UNCHANGED <<ck_input, ck_pc, ck_index, ck_chunks, ck_nonce, ck_todo, ck_out,
                   ck_result>>

\* the offsets altered: the first and the last byte of every field that
\* create_chunk_file lays out before the checksum (magic, version, index,
\* total, file hash, chunk hash, iv, compression type, the two sizes,
\* timestamp, padding, ciphertext, tag)
FieldEnds == <<4, 6, 10, 14, 14 + DIGEST_SIZE, 14 + 2 * DIGEST_SIZE,
               14 + 2 * DIGEST_SIZE + IV_SIZE, 14 + 2 * DIGEST_SIZE + IV_SIZE + 1,
               14 + 2 * DIGEST_SIZE + IV_SIZE + 9, 14 + 2 * DIGEST_SIZE + IV_SIZE + 17,
               14 + 2 * DIGEST_SIZE + IV_SIZE + 25,
               14 + 2 * DIGEST_SIZE + METADATA_SIZE>>
AlteredOffsets(frame) ==
    LET body_end == Len(frame) - CHECKSUM_SIZE
    IN {0, body_end - TAG_SIZE - 1, body_end - TAG_SIZE, body_end - 1}
         \cup {FieldEnds[j] - 1 : j \in 1..Len(FieldEnds)}
         \cup {FieldEnds[j] : j \in 1..Len(FieldEnds)}

\* the files chunked here: chunks.rs reads no byte's value, so the values
\* are interchangeable and every file begins with the byte 0; one key, one
\* timestamp
AlteredPlaintexts == {p \in Plaintexts : Len(p) = 0 \/ p[1] = B(0)}

CkAlteredNext ==
    \/ \E d \in AlteredPlaintexts : ChunkFileBegin(d, 1) /\ UNCHANGED notCk
    \/ ChunkFileStep(1) /\ UNCHANGED notCk
    \/ ReassembleBegin /\ UNCHANGED notCk
    \/ ReassembleStep /\ UNCHANGED notCk
    \/ ReassembleEnd /\ UNCHANGED notCk
    \/ \E f \in ck_disk : \E pos \in AlteredOffsets(f.data) :
           AlterFrame(f.name, pos) /\ UNCHANGED notCa

(***************************************************************************)
(*   The chunk writers step by step: ChunkManager::save_chunk_atomic       *)
(*   (manager.rs) and ChunkManager::save_chunk (chunks.rs), over a file    *)
(*   system of directory entries and inodes                                *)
(***************************************************************************)
SvMaxLen == 2      \* longest chunk data written

MgWriters == {"m1", "m2"}      \* ingests running save_chunk_atomic for one hash
CkWriters == {"s1"}            \* an ingest running chunks.rs save_chunk
Writers   == MgWriters \cup CkWriters

\* the one chunk hash all writers save under, and its three paths
sv_chunk_path == "chunks/ab/<hash>"        \* get_chunk_path(hash)
sv_temp_path  == "chunks/ab/<hash>.tmp"    \* chunk_path.with_extension("tmp")
sv_file_path  == "storage_path/<hash>"     \* storage_path.join(chunk_hash)
SvPaths == {sv_chunk_path, sv_temp_path, sv_file_path}

NoInode  == 0
Inodes   == 1..Cardinality(Writers)
NoWriter == "nobody"

\* the data handed to a writer: plaintext or nonce-and-ciphertext of the chunk,
\* told apart by their lengths
SvChunk(n) == [j \in 1..n |-> [src |-> "data", i |-> j, of |-> <<B(n)>>]]
SvData == {SvChunk(n) : n \in 1..SvMaxLen}

NoSave == [pc |-> "idle", data |-> << >>, ino |-> NoInode, off |-> 0, result |-> "none"]

SvInit ==
    /\ sv_names = [p \in SvPaths |-> NoInode]
    /\ sv_inodes = [i \in Inodes |-> << >>]
    /\ sv_lock = [i \in Inodes |-> NoWriter]
    /\ sv_w = [w \in Writers |-> NoSave]

\* an inode no directory entry and no open file refers to
FreeInode ==
    CHOOSE i \in Inodes :
        /\ \A p \in SvPaths : sv_names[p] # i
        /\ \A w \in Writers : sv_w[w].ino # i
        /\ \A j \in Inodes : ((\A p \in SvPaths : sv_names[p] # j)
                               /\ (\A w \in Writers : sv_w[w].ino # j)) => i <= j

\* open(path) with create and truncate (OpenOptions .create .write .truncate,
\* File::create): an existing file is emptied in place, else a new one is made
OpenTruncate(w, path, data, pc) ==
    LET ino == IF sv_names[path] # NoInode THEN sv_names[path] ELSE FreeInode
    IN /\ sv_names' = [sv_names EXCEPT ![path] = ino]
       /\ sv_inodes' = [sv_inodes EXCEPT ![ino] = << >>]
       /\ sv_w' = [sv_w EXCEPT ![w] = [pc |-> pc, data |-> data, ino |-> ino,
                                       off |-> 0, result |-> "none"]]

\* write(2) of one more byte at the file offset; a gap left by a truncation
\* reads as zero bytes
write_at(content, off, byte) ==
    IF off < Len(content)
    THEN [content EXCEPT ![off + 1] = byte]
    ELSE content \o [j \in 1..(off - Len(content)) |-> B(0)] \o <<byte>>

WriteSome(w) ==
    /\ sv_w[w].off < Len(sv_w[w].data)
    /\ sv_inodes' = [sv_inodes EXCEPT ![sv_w[w].ino] =
                        write_at(@, sv_w[w].off, sv_w[w].data[sv_w[w].off + 1])]
    /\ sv_w' = [sv_w EXCEPT ![w].off = @ + 1]

\* manager.rs lines 375-390: create_dir_all, then the temp file is opened
AtomicOpen(w, data) ==
    /\ sv_w[w].pc = "idle"
    /\ OpenTruncate(w, sv_temp_path, data, "opened")
    /\ UNCHANGED sv_lock

\* lines 393-394: temp_file.lock_exclusive() waits while the lock is held
AtomicLock(w) ==
    /\ sv_w[w].pc = "opened"
    /\ sv_lock[sv_w[w].ino] = NoWriter
    /\ sv_lock' = [sv_lock EXCEPT ![sv_w[w].ino] = w]
    /\ sv_w' = [sv_w EXCEPT ![w].pc = "locked"]
    /\ UNCHANGED <<sv_names, sv_inodes>>

\* lines 396-402: write_all and flush through the BufWriter
AtomicWrite(w) ==
    /\ sv_w[w].pc = "locked"
    /\ WriteSome(w)
    /\ UNCHANGED <<sv_names, sv_lock>>

\* lines 404-408: fs::rename(temp_path, chunk_path), then the return, which
\* drops temp_file and with it the lock
AtomicRename(w) ==
    /\ sv_w[w].pc = "locked"
    /\ sv_w[w].off = Len(sv_w[w].data)
    /\ IF sv_names[sv_temp_path] = NoInode
       THEN /\ sv_w' = [sv_w EXCEPT ![w].pc = "done", ![w].ino = NoInode,
                                    ![w].result = "err_rename"]
            /\ UNCHANGED sv_names
       ELSE /\ sv_names' = [sv_names EXCEPT ![sv_chunk_path] = sv_names[sv_temp_path],
                                            ![sv_temp_path] = NoInode]
            /\ sv_w' = [sv_w EXCEPT ![w].pc = "done", ![w].ino = NoInode,
                                    ![w].result = "ok"]
    /\ sv_lock' = [sv_lock EXCEPT ![sv_w[w].ino] = NoWriter]
    /\ UNCHANGED sv_inodes

\* chunks.rs lines 259-262: File::create(file_path)
SaveCreate(w, data) ==
    /\ sv_w[w].pc = "idle"
    /\ OpenTruncate(w, sv_file_path, data, "created")
    /\ UNCHANGED sv_lock

\* chunks.rs lines 264-265: file.write_all(chunk_data)
SaveWrite(w) ==
    /\ sv_w[w].pc = "created"
    /\ WriteSome(w)
    /\ UNCHANGED <<sv_names, sv_lock>>

\* chunks.rs lines 267-270: file.sync_all() and Ok
SaveSync(w) ==
    /\ sv_w[w].pc = "created"
    /\ sv_w[w].off = Len(sv_w[w].data)
    /\ sv_w' = [sv_w EXCEPT ![w].pc = "done", ![w].ino = NoInode, ![w].result = "ok"]
    /\ UNCHANGED <<sv_names, sv_inodes, sv_lock>>

\* the writer's process dies between two steps: its open file is closed and
\* its lock released, what it wrote stays
SvCrash(w) ==
    /\ sv_w[w].pc \in {"opened", "locked", "created"}
    /\ sv_w' = [sv_w EXCEPT ![w].pc = "crashed", ![w].ino = NoInode]
    /\ sv_lock' = [i \in Inodes |-> IF sv_lock[i] = w THEN NoWriter ELSE sv_lock[i]]
    /\ UNCHANGED <<sv_names, sv_inodes>>

SvNext ==
    \/ \E w \in MgWriters, d \in SvData : AtomicOpen(w, d) /\ UNCHANGED notSv
    \/ \E w \in MgWriters : AtomicLock(w) /\ UNCHANGED notSv
    \/ \E w \in MgWriters : AtomicWrite(w) /\ UNCHANGED notSv
    \/ \E w \in MgWriters : AtomicRename(w) /\ UNCHANGED notSv
    \/ \E w \in CkWriters, d \in SvData : SaveCreate(w, d) /\ UNCHANGED notSv
    \/ \E w \in CkWriters : SaveWrite(w) /\ UNCHANGED notSv
    \/ \E w \in CkWriters : SaveSync(w) /\ UNCHANGED notSv
    \/ \E w \in Writers : SvCrash(w) /\ UNCHANGED notSv

(***************************************************************************)
(*              manager.rs : ChunkManager::reconstruct_file                *)
(***************************************************************************)
\* lines 512-524: the first 12 bytes are the nonce, the rest ciphertext and tag
manager_decrypt_chunk(encrypted_data, key) ==
    IF Len(encrypted_data) < NONCE_SIZE THEN Failed
    ELSE aes_gcm_decrypt(key, SubSeq(encrypted_data, 1, NONCE_SIZE),
                         SubSeq(encrypted_data, NONCE_SIZE + 1, Len(encrypted_data)))

\* fs::read(get_chunk_path(chunk_hash))
manager_load_chunk(files, chunk_hash) ==
    (CHOOSE f \in files : f.path = get_chunk_path(chunk_hash)).data

\* manifest.encryption.is_some()
encryption_is_some(manifest) == manifest.encryption.algorithm # "none"

\* a plausible slip: the chunk length is not compared with the manifest entry
size_matches_always(plain_data, chunk_info) == TRUE
\* line 246: `plain_data.len() != chunk_info.size`
size_matches(plain_data, chunk_info) == Len(plain_data) = chunk_info.size

\* lines 226-256: the loop over manifest.chunks; `out` is what was written
RECURSIVE reconstruct_chunks(_, _, _, _, _)
reconstruct_chunks(chunks, files, key, encrypted, out) ==
    IF chunks = << >> THEN [result |-> "ok", out |-> out]
    ELSE LET chunk_info == Head(chunks)
         IN IF ~chunk_exists(files, chunk_info.hash)
            THEN [result |-> "err_load", out |-> out]
            ELSE IF key = NoKey /\ encrypted
            THEN [result |-> "err_no_key", out |-> out]
            ELSE LET chunk_data == manager_load_chunk(files, chunk_info.hash)
                     dec == IF key # NoKey /\ encrypted
                            THEN manager_decrypt_chunk(chunk_data, key)
                            ELSE [ok |-> TRUE, data |-> chunk_data]
                 IN IF ~dec.ok
                    THEN [result |-> "err_decrypt", out |-> out]
                    ELSE IF manager_hash_chunk(dec.data) # chunk_info.hash
                    THEN [result |-> "err_chunk_hash", out |-> out]
                    ELSE IF ~size_matches(dec.data, chunk_info)
                    THEN [result |-> "err_chunk_size", out |-> out]
                    ELSE reconstruct_chunks(Tail(chunks), files, key, encrypted,
                                            out \o dec.data)

\* lines 198-269
reconstruct_file(manifest, files, key) ==
    IF calculate_manifest_hash(manifest) # manifest.manifest_hash
    THEN [result |-> "err_manifest", out |-> << >>]
    ELSE LET r == reconstruct_chunks(manifest.chunks, files, key,
                                     encryption_is_some(manifest), << >>)
         IN IF r.result # "ok" THEN r
            ELSE IF manager_hash_file(r.out) # manifest.file_hash
            THEN [result |-> "err_file_hash", out |-> r.out]
            ELSE r

\* the manifests a caller may pass: a stored one, or one edited by whoever
\* holds it, with manifest_hash recomputed or left stale
Rehashed(m) == [m EXCEPT !.manifest_hash = calculate_manifest_hash(m)]
ManifestVariants(m) ==
    {m, [m EXCEPT !.file_size = @ + 1]}
      \cup {Rehashed([m EXCEPT !.chunks[i].size = @ + 1]) : i \in 1..Len(m.chunks)}
      \cup {Rehashed([m EXCEPT !.chunks[i].hash = m.file_hash]) : i \in 1..Len(m.chunks)}
      \cup {Rehashed([m EXCEPT !.chunks = SubSeq(@, 1, Len(@) - 1)]) : i \in 1..Len(m.chunks)}
      \cup {Rehashed([m EXCEPT !.file_hash = manager_hash_file(<<B(0)>> \o @.sha256_hex)])}
      \cup {Rehashed([m EXCEPT !.encryption.algorithm =
                          IF @ = "none" THEN "AES-256-GCM" ELSE "none"])}

NoCall == [called |-> FALSE, result |-> "none", manifest |-> NoManifest, key |-> NoKey,
           out |-> << >>]

RcInit == rc_ret = NoCall /\ rc_tampered = FALSE

ReconstructFile(manifest, key) ==
    /\ mg_pc = "idle"
    /\ LET r == reconstruct_file(manifest, mg_files, key)
       IN rc_ret' = [called |-> TRUE, result |-> r.result, manifest |-> manifest,
                     key |-> key, out |-> r.out]
    /\ UNCHANGED rc_tampered

\* a chunk file disappears from chunks/
RemoveChunkFile(path) ==
    /\ mg_pc = "idle"
    /\ ~rc_tampered
    /\ rc_tampered' = TRUE
    /\ UNCHANGED rc_ret
    /\ path_exists(mg_files, path)
    /\ mg_files' = {f \in mg_files : f.path # path}
    /\ UNCHANGED <<mg_manifests, mg_pc, mg_op, mg_clock, mg_ret, mg_hist>>

\* a byte of a chunk file changes on disk
AlterChunkFile(path) ==
    /\ mg_pc = "idle"
    /\ ~rc_tampered
    /\ rc_tampered' = TRUE
    /\ UNCHANGED rc_ret
    /\ \E f \in mg_files :
          /\ f.path = path
          /\ f.data # << >>
          /\ f.data[1].src # "altered"
          /\ mg_files' = (mg_files \ {f})
                            \cup {[f EXCEPT !.data = [@ EXCEPT ![1] = altered_byte(@)]]}
    /\ UNCHANGED <<mg_manifests, mg_pc, mg_op, mg_clock, mg_ret, mg_hist>>

\* the files ingested before a reconstruction
RcPlaintexts == {<<B(0)>>, <<B(0), B(1)>>}

\* a run ends with one reconstruct_file call on the store as it then is
RcNext ==
    \/ \E n \in MgFileNames, d \in RcPlaintexts, e \in BOOLEAN :
           ~rc_ret.called /\ IngestBegin(n, d, e, TRUE) /\ UNCHANGED notMg
    \/ ~rc_ret.called /\ IngestChunk("ok") /\ UNCHANGED notMg
    \/ ~rc_ret.called /\ IngestFinish("ok") /\ UNCHANGED notMg
    \/ \E f \in mg_files :
           ~rc_ret.called /\ RemoveChunkFile(f.path) /\ UNCHANGED notMgRc
    \/ \E f \in mg_files :
           ~rc_ret.called /\ AlterChunkFile(f.path) /\ UNCHANGED notMgRc
    \/ \E s \in mg_manifests, k \in 0..MgMaxIngests :
         \E m \in ManifestVariants(s.manifest) :
           ~rc_ret.called /\ ReconstructFile(m, k) /\ UNCHANGED notRc

(***************************************************************************)
(*                       market.rs : MarketService                         *)
(*  Prices, reputations and uptimes are finite decimals (they arrive as    *)
(*  JSON numbers); the model holds them as scaled integers: price in       *)
(*  1e-4 units, reputation in tenths, uptime in hundredths, sizes in       *)
(*  512 MB units.                                                          *)
(***************************************************************************)
MkMaxNodes     == 3      \* registered storage nodes
MkMaxSuppliers == 3      \* register_file_supplier calls in one run
MkMaxTicks     == 2      \* clock steps in one run
MkStart        == 300    \* the clock when the service is created
MkStep         == 150    \* seconds per clock step

MIN_UPTIME        == 90     \* `node.uptime > 0.9`
MIN_REPUTATION    == 30     \* `node.reputation > 3.0`
SUPPLIER_MAX_AGE  == 300    \* `current_time - supplier.last_seen < 300`

MkNodeIds == 3..MkMaxNodes      \* the ids callers register; "node_<i>" is held as i
MkHashes  == {"h1", "h2"}

\* lines 49-89: the two mock nodes of MarketService::new
MockNodes ==
    {[node_id |-> 1, available |-> 1, price_per_mb |-> 10,
      reputation |-> 45, uptime |-> 99],
     [node_id |-> 2, available |-> 2, price_per_mb |-> 8,
      reputation |-> 48, uptime |-> 95]}

\* the StorageNode values a caller registers
MkNodeInputs ==
    [node_id : MkNodeIds, available : {1, 2}, price_per_mb : {8}, reputation : {48},
     uptime : {95}]
      \cup [node_id : MkNodeIds, available : {1, 2}, price_per_mb : {10},
            reputation : {30, 48}, uptime : {95}]
      \cup [node_id : MkNodeIds, available : {1, 2}, price_per_mb : {10},
            reputation : {48}, uptime : {90}]

NoMarketRet == [op |-> "none", arg |-> 0, n |-> 0, result |-> "none", list |-> << >>]

MkInit ==
    /\ mk_storage_nodes = MockNodes
    /\ mk_file_suppliers = [h \in MkHashes |-> << >>]
    /\ mk_now = MkStart
    /\ mk_ret = NoMarketRet

\* f64/f32 partial_cmp on finite values, as std::cmp::Ordering
partial_cmp(a, b) == IF a < b THEN "Less" ELSE IF a > b THEN "Greater" ELSE "Equal"
\* Ordering::then_with
then_with(first, second) == IF first = "Equal" THEN second ELSE first

\* a plausible slip: the reputation tie-break is dropped
compare_nodes_price_only(a, b) == partial_cmp(a.price_per_mb, b.price_per_mb)
\* lines 106-110
compare_nodes(a, b) ==
    then_with(partial_cmp(a.price_per_mb, b.price_per_mb),
              partial_cmp(b.reputation, a.reputation))
\* lines 159-163
compare_suppliers(a, b) ==
    then_with(partial_cmp(a.price, b.price), partial_cmp(b.reputation, a.reputation))

\* the closure handed to sort_by: "nodes" is lines 106-110, "suppliers" 159-163
compare(by, a, b) ==
    IF by = "nodes" THEN compare_nodes(a, b) ELSE compare_suppliers(a, b)

\* slice::sort_by is a stable sort: x goes before the first element it precedes
insert_sorted(sorted, x, by) ==
    LET after == {i \in DOMAIN sorted : compare(by, x, sorted[i]) = "Less"}
        k == IF after = {} THEN Len(sorted) + 1
             ELSE CHOOSE i \in after : \A j \in after : i <= j
    IN SubSeq(sorted, 1, k - 1) \o <<x>> \o SubSeq(sorted, k, Len(sorted))
sort_by(v, by) ==
    LET sorted[n \in 0..Len(v)] ==
            IF n = 0 THEN << >> ELSE insert_sorted(sorted[n - 1], v[n], by)
    IN sorted[Len(v)]

\* Vec::truncate
truncate(v, len) == SubSeq(v, 1, Min(len, Len(v)))

\* Iterator::filter(..).collect() over a sequence; kept: the elements the
\* closure accepts
filter_seq(v, kept) ==
    LET out[n \in 0..Len(v)] ==
            IF n = 0 THEN << >>
            ELSE IF v[n] \in kept THEN Append(out[n - 1], v[n]) ELSE out[n - 1]
    IN out[Len(v)]

\* HashMap::values(): the registered nodes in some iteration order
ValueOrders(nodes) ==
    {v \in [1..Cardinality(nodes) -> nodes] : \A n \in nodes : \E i \in DOMAIN v : v[i] = n}

\* lines 97-101
suitable(node, file_size) ==
    /\ node.available >= file_size
    /\ node.uptime > MIN_UPTIME
    /\ node.reputation > MIN_REPUTATION

\* lines 92-124
query_storage_nodes(values, file_size, replication_factor) ==
    LET kept == {values[i] : i \in {j \in DOMAIN values : suitable(values[j], file_size)}}
        suitable_nodes == sort_by(filter_seq(values, kept), "nodes")
        needed_nodes == Min(replication_factor, Len(suitable_nodes))
    IN truncate(suitable_nodes, needed_nodes)

QueryStorageNodes(file_size, replication_factor) ==
    /\ \E values \in ValueOrders(mk_storage_nodes) :
          mk_ret' = [op |-> "query_storage_nodes", arg |-> file_size,
                     n |-> replication_factor, result |-> "ok",
                     list |-> query_storage_nodes(values, file_size, replication_factor)]
    /\ UNCHANGED <<mk_storage_nodes, mk_file_suppliers, mk_now>>

\* lines 206-211: HashMap::insert replaces the node of the same id
RegisterStorageNode(node) ==
    /\ mk_storage_nodes' =
           {old \in mk_storage_nodes : old.node_id # node.node_id} \cup {node}
    /\ mk_ret' = NoMarketRet
    /\ UNCHANGED <<mk_file_suppliers, mk_now>>

\* suppliers registered so far
registered_count == Len(mk_file_suppliers["h1"]) + Len(mk_file_suppliers["h2"])

\* lines 127-138: push under the key; the supplier's own file_hash is not looked at
RegisterFileSupplier(file_hash, supplier) ==
    /\ registered_count < MkMaxSuppliers
    /\ mk_file_suppliers' = [mk_file_suppliers EXCEPT ![file_hash] = Append(@, supplier)]
    /\ mk_ret' = NoMarketRet
    /\ UNCHANGED <<mk_storage_nodes, mk_now>>

\* the FileSupplier values a caller registers next under hash h; the supplier
\* names "h1" as its file whatever the key is
MkSupplierInputs(h) ==
    IF h = "h1"
    THEN [supplier_id : {registered_count + 1}, file_hash : {"h1"}, price : {1},
          reputation : {30}, last_seen : {mk_now, mk_now + MkStep}]
           \cup [supplier_id : {registered_count + 1}, file_hash : {"h1"}, price : {2},
                 reputation : {30, 45}, last_seen : {mk_now, mk_now + MkStep}]
    ELSE [supplier_id : {registered_count + 1}, file_hash : {"h1"}, price : {1},
          reputation : {30}, last_seen : {mk_now}]

MkTick ==
    /\ mk_now < MkStart + MkMaxTicks * MkStep
    /\ mk_now' = mk_now + MkStep
    /\ mk_ret' = NoMarketRet
    /\ UNCHANGED <<mk_storage_nodes, mk_file_suppliers>>

\* a plausible slip: an entry seen exactly 300 s ago still counts
seen_recently_inclusive(current_time, supplier) ==
    current_time >= supplier.last_seen /\ current_time - supplier.last_seen <= SUPPLIER_MAX_AGE
\* line 153 in a build without overflow checks: the u64 difference wraps to
\* 2^64 - (last_seen - current_time), far above 300, when last_seen is later
seen_recently(current_time, supplier) ==
    current_time >= supplier.last_seen /\ current_time - supplier.last_seen < SUPPLIER_MAX_AGE

\* line 153 in a build with overflow checks: the subtraction panics
subtraction_overflows(current_time, file_suppliers) ==
    \E i \in DOMAIN file_suppliers : file_suppliers[i].last_seen > current_time

\* lines 140-173
lookup_file_suppliers(file_suppliers, current_time) ==
    LET kept == {file_suppliers[i] :
                    i \in {j \in DOMAIN file_suppliers :
                              seen_recently(current_time, file_suppliers[j])}}
    IN sort_by(filter_seq(file_suppliers, kept), "suppliers")

\* overflow_checks: the build profile (on in a debug build, off in a release one)
LookupFileSuppliers(file_hash, overflow_checks) ==
    /\ mk_ret' =
         IF overflow_checks /\ subtraction_overflows(mk_now, mk_file_suppliers[file_hash])
         THEN [op |-> "lookup_file_suppliers", arg |-> file_hash, n |-> 0,
               result |-> "panic", list |-> << >>]
         ELSE [op |-> "lookup_file_suppliers", arg |-> file_hash, n |-> 0,
               result |-> "ok",
               list |-> lookup_file_suppliers(mk_file_suppliers[file_hash], mk_now)]
    /\ UNCHANGED <<mk_storage_nodes, mk_file_suppliers, mk_now>>

MkNodesNext ==
    \/ \E node \in MkNodeInputs : RegisterStorageNode(node) /\ UNCHANGED notMk
    \/ \E file_size \in 1..3, r \in 0..MkMaxNodes :
           QueryStorageNodes(file_size, r) /\ UNCHANGED notMk

MkSuppliersNext ==
    \/ \E h \in MkHashes : \E s \in MkSupplierInputs(h) :
           RegisterFileSupplier(h, s) /\ UNCHANGED notMk
    \/ MkTick /\ UNCHANGED notMk
    \/ \E h \in MkHashes, c \in BOOLEAN : LookupFileSuppliers(h, c) /\ UNCHANGED notMk

(***************************************************************************)
(*                    reputation.rs : BlacklistManager                     *)
(*  Scores are held in tenths (0.2 is 2).                                  *)
(***************************************************************************)
BlMaxTicks == 3          \* clock steps in one run
BlStep     == 1296000    \* seconds per clock step: 15 days

DEFAULT_BLACKLIST_SCORE_THRESHOLD        == 2     \* 0.2
DEFAULT_BLACKLIST_BAD_VERDICTS_THRESHOLD == 3
DEFAULT_BLACKLIST_RETENTION              == 30    \* days
SECONDS_PER_DAY                          == 86400

BlPeers  == {"peer1", "peer2"}
BlModes  == {"manual", "automatic", "hybrid"}
BlScores == {1, 2, 3}
BlCounts == {2, 3}

NoConfig == [blacklist_mode |-> "none", blacklist_auto_enabled |-> FALSE,
             blacklist_score_threshold |-> 0, blacklist_bad_verdicts_threshold |-> 0,
             blacklist_retention |-> 0]

\* lines 353-373, with the mode and the switch as the caller sets them
BlConfig(mode, enabled) ==
    [blacklist_mode |-> mode, blacklist_auto_enabled |-> enabled,
     blacklist_score_threshold |-> DEFAULT_BLACKLIST_SCORE_THRESHOLD,
     blacklist_bad_verdicts_threshold |-> DEFAULT_BLACKLIST_BAD_VERDICTS_THRESHOLD,
     blacklist_retention |-> DEFAULT_BLACKLIST_RETENTION]

NoBlRet == [op |-> "none", peer_id |-> "none", score |-> 0, bad_verdict_count |-> 0,
            value |-> 0]

BlInit ==
    /\ bl_config = NoConfig
    /\ bl_entries = {}
    /\ bl_now = 0
    /\ bl_ret = NoBlRet

\* lines 455-460
BlacklistManagerNew(config) ==
    /\ bl_config = NoConfig
    /\ bl_config' = config
    /\ bl_entries' = {}
    /\ bl_ret' = [NoBlRet EXCEPT !.op = "new"]
    /\ UNCHANGED bl_now

\* a plausible slip: only automatic entries count as present
contains_key_automatic(entries, peer_id) ==
    \E e \in entries : e.peer_id = peer_id /\ e.is_automatic
\* HashMap::contains_key
contains_key(entries, peer_id) == \E e \in entries : e.peer_id = peer_id
\* HashMap::insert
insert_entry(entries, entry) ==
    {e \in entries : e.peer_id # entry.peer_id} \cup {entry}

\* lines 463-482
AddManual(peer_id) ==
    /\ bl_config # NoConfig
    /\ bl_entries' = insert_entry(bl_entries,
                        [peer_id |-> peer_id, reason |-> "manual",
                         blacklisted_at |-> bl_now, is_automatic |-> FALSE])
    /\ bl_ret' = [NoBlRet EXCEPT !.op = "add_manual", !.peer_id = peer_id]
    /\ UNCHANGED <<bl_config, bl_now>>

\* a plausible slip: the bad-verdict count has to exceed the threshold
should_blacklist_strict_count(config, score, bad_verdict_count) ==
    \/ score < config.blacklist_score_threshold
    \/ bad_verdict_count > config.blacklist_bad_verdicts_threshold
\* lines 499-500
should_blacklist(config, score, bad_verdict_count) ==
    \/ score < config.blacklist_score_threshold
    \/ bad_verdict_count >= config.blacklist_bad_verdicts_threshold

\* lines 485-533
CheckAutoBlacklist(peer_id, score, bad_verdict_count) ==
    /\ bl_config # NoConfig
    /\ LET ret(v) == [op |-> "check_auto_blacklist", peer_id |-> peer_id,
                      score |-> score, bad_verdict_count |-> bad_verdict_count,
                      value |-> v]
       IN IF ~bl_config.blacklist_auto_enabled
          THEN bl_ret' = ret(FALSE) /\ UNCHANGED bl_entries
          ELSE IF bl_config.blacklist_mode = "manual"
          THEN bl_ret' = ret(FALSE) /\ UNCHANGED bl_entries
          ELSE IF /\ should_blacklist(bl_config, score, bad_verdict_count)
                  /\ ~contains_key(bl_entries, peer_id)
          THEN /\ bl_entries' = insert_entry(bl_entries,
                     [peer_id |-> peer_id,
                      reason |-> IF score < bl_config.blacklist_score_threshold
                                 THEN "score" ELSE "bad_verdicts",
                      blacklisted_at |-> bl_now, is_automatic |-> TRUE])
               /\ bl_ret' = ret(TRUE)
          ELSE bl_ret' = ret(FALSE) /\ UNCHANGED bl_entries
    /\ UNCHANGED <<bl_config, bl_now>>

\* lines 536-539
is_blacklisted(entries, peer_id) == contains_key(entries, peer_id)

\* lines 542-546
BlRemove(peer_id) ==
    /\ bl_config # NoConfig
    /\ bl_entries' = {e \in bl_entries : e.peer_id # peer_id}
    /\ bl_ret' = [NoBlRet EXCEPT !.op = "remove", !.peer_id = peer_id]
    /\ UNCHANGED <<bl_config, bl_now>>

\* a plausible slip: the retain closure does not look at is_automatic
expired_any_kind(entry, now, retention_seconds) ==
    saturating_sub(now, entry.blacklisted_at) > retention_seconds
\* lines 565-573: the entries the retain closure drops
expired(entry, now, retention_seconds) ==
    /\ entry.is_automatic
    /\ saturating_sub(now, entry.blacklisted_at) > retention_seconds

\* lines 555-577
CleanupExpired ==
    /\ bl_config # NoConfig
    /\ LET retention_seconds == bl_config.blacklist_retention * SECONDS_PER_DAY
           kept == {e \in bl_entries : ~expired(e, bl_now, retention_seconds)}
       IN /\ bl_entries' = kept
          /\ bl_ret' = [NoBlRet EXCEPT !.op = "cleanup_expired",
                                       !.value = Cardinality(bl_entries \ kept)]
    /\ UNCHANGED <<bl_config, bl_now>>

BlTick ==
    /\ bl_now < BlMaxTicks * BlStep
    /\ bl_now' = bl_now + BlStep
    /\ bl_ret' = NoBlRet
    /\ UNCHANGED <<bl_config, bl_entries>>

BlNext ==
    \/ \E mode \in BlModes, enabled \in BOOLEAN :
           BlacklistManagerNew(BlConfig(mode, enabled)) /\ UNCHANGED notBl
    \/ \E peer \in BlPeers : AddManual(peer) /\ UNCHANGED notBl
    \/ \E peer \in BlPeers, score \in BlScores, bad \in BlCounts :
           CheckAutoBlacklist(peer, score, bad) /\ UNCHANGED notBl
    \/ \E peer \in BlPeers : BlRemove(peer) /\ UNCHANGED notBl
    \/ CleanupExpired /\ UNCHANGED notBl
    \/ BlTick /\ UNCHANGED notBl

(***************************************************************************)
(*                    reputation.rs : ReputationCache                      *)
(***************************************************************************)
CsMaxTicks == 3          \* clock steps in one run
CsStep     == 300        \* seconds per clock step

DEFAULT_CACHE_TTL == 600     \* ReputationConfig::default().cache_ttl

CsPeers == {"peer1", "peer2"}
\* the (score, trust_level) pairs callers cache, scores in tenths
CsInputs == {[score |-> 8, trust_level |-> "Trusted"], [score |-> 2, trust_level |-> "Low"]}

NoCached == [peer_id |-> "none", score |-> 0, trust_level |-> "Unknown", cached_at |-> 0]
NoCsRet == [op |-> "none", peer_id |-> "none", found |-> FALSE, cached |-> NoCached,
            count |-> 0]

CsInit ==
    /\ cs_cache = [constructed |-> FALSE, ttl |-> 0]
    /\ cs_scores = {}
    /\ cs_set = {}
    /\ cs_now = 0
    /\ cs_ret = NoCsRet

\* lines 597-602
ReputationCacheNew(ttl) ==
    /\ ~cs_cache.constructed
    /\ cs_cache' = [constructed |-> TRUE, ttl |-> ttl]
    /\ cs_scores' = {}
    /\ cs_ret' = [NoCsRet EXCEPT !.op = "new"]
    /\ UNCHANGED <<cs_set, cs_now>>

\* a plausible slip: an entry whose age equals the TTL still counts as fresh
not_stale_inclusive(cached, now, ttl) == saturating_sub(now, cached.cached_at) <= ttl
\* lines 614-615 and 659-661: `age < self.ttl`
not_stale(cached, now, ttl) == saturating_sub(now, cached.cached_at) < ttl

\* lines 605-621
CacheGet(peer_id) ==
    /\ cs_cache.constructed
    /\ cs_ret' =
         IF \E c \in cs_scores : c.peer_id = peer_id /\ not_stale(c, cs_now, cs_cache.ttl)
         THEN [NoCsRet EXCEPT !.op = "get", !.peer_id = peer_id, !.found = TRUE,
                   !.cached = CHOOSE c \in cs_scores : c.peer_id = peer_id]
         ELSE [NoCsRet EXCEPT !.op = "get", !.peer_id = peer_id]
    /\ UNCHANGED <<cs_cache, cs_scores, cs_set, cs_now>>

\* lines 624-641
CacheSet(peer_id, score, trust_level) ==
    /\ cs_cache.constructed
    /\ LET cached == [peer_id |-> peer_id, score |-> score, trust_level |-> trust_level,
                      cached_at |-> cs_now]
       IN /\ cs_scores' = {c \in cs_scores : c.peer_id # peer_id} \cup {cached}
          /\ cs_set' = {c \in cs_set : c.peer_id # peer_id} \cup {cached}
    /\ cs_ret' = [NoCsRet EXCEPT !.op = "set", !.peer_id = peer_id]
    /\ UNCHANGED <<cs_cache, cs_now>>

\* lines 644-648
CacheClear ==
    /\ cs_cache.constructed
    /\ cs_scores' = {}
    /\ cs_set' = {}
    /\ cs_ret' = [NoCsRet EXCEPT !.op = "clear"]
    /\ UNCHANGED <<cs_cache, cs_now>>

\* lines 651-665
CleanupStale ==
    /\ cs_cache.constructed
    /\ LET initial_count == Cardinality(cs_scores)
           retained == {c \in cs_scores : not_stale(c, cs_now, cs_cache.ttl)}
       IN /\ cs_scores' = retained
          /\ cs_ret' = [NoCsRet EXCEPT !.op = "cleanup_stale",
                                       !.count = initial_count - Cardinality(retained)]
    /\ UNCHANGED <<cs_cache, cs_set, cs_now>>

CsTick ==
    /\ cs_now < CsMaxTicks * CsStep
    /\ cs_now' = cs_now + CsStep
    /\ cs_ret' = NoCsRet
    /\ UNCHANGED <<cs_cache, cs_scores, cs_set>>

CsNext ==
    \/ \E ttl \in {0, DEFAULT_CACHE_TTL} : ReputationCacheNew(ttl) /\ UNCHANGED notCs
    \/ \E peer \in CsPeers : CacheGet(peer) /\ UNCHANGED notCs
    \/ \E peer \in CsPeers, in \in CsInputs :
           CacheSet(peer, in.score, in.trust_level) /\ UNCHANGED notCs
    \/ CacheClear /\ UNCHANGED notCs
    \/ CleanupStale /\ UNCHANGED notCs
    \/ CsTick /\ UNCHANGED notCs

(***************************************************************************)
(*         reputation.rs : TransactionVerdict::sign_with / verify          *)
(*  Ed25519 is taken as unforgeable and deterministic: a signature is the  *)
(*  pair of the signing key and the signed bytes, and verifies only under  *)
(*  that key's public half and over those bytes.                           *)
(***************************************************************************)
SgMaxChanges == 2        \* signed fields that differ from what was signed
SgKeys == {"k1", "k2"}

\* Option<T>
None == [some |-> FALSE, val |-> "null"]
Some(x) == [some |-> TRUE, val |-> x]

\* SigningKey::verifying_key
verifying_key(signing_key) == [public_of |-> signing_key]

\* a plausible slip: tx_receipt is left out of the signed payload
signable_without_receipt(v) ==
    [target_id |-> v.target_id, tx_hash |-> v.tx_hash, outcome |-> v.outcome,
     details |-> v.details, metric |-> v.metric, issued_at |-> v.issued_at,
     issuer_id |-> v.issuer_id, issuer_seq_no |-> v.issuer_seq_no,
     tx_receipt |-> None, evidence_blobs |-> v.evidence_blobs]
\* lines 128-139 and 150-161: the serde_json::json! object
signable(v) ==
    [target_id |-> v.target_id, tx_hash |-> v.tx_hash, outcome |-> v.outcome,
     details |-> v.details, metric |-> v.metric, issued_at |-> v.issued_at,
     issuer_id |-> v.issuer_id, issuer_seq_no |-> v.issuer_seq_no,
     tx_receipt |-> v.tx_receipt, evidence_blobs |-> v.evidence_blobs]

\* serde_json::to_vec: the bytes of the JSON text of the object; distinct
\* objects give distinct texts
to_vec(value) == [json_text_of |-> value]

\* SigningKey::sign: 64 bytes
ed25519_sign(signing_key, message) ==
    [len |-> 64, by |-> signing_key, over |-> message]
\* VerifyingKey::verify(..).is_ok()
ed25519_verify(key, message, signature) ==
    /\ signature.len = 64
    /\ key = verifying_key(signature.by)
    /\ signature.over = message

\* zero bytes
NoBytes == [len |-> 0, by |-> "none", over |-> "none"]
\* hex::encode of the signature bytes
hex_encode(bytes) == [hex |-> TRUE, of |-> bytes]
\* issuer_sig values that are not the hex of a signature
MockSignature == [hex |-> FALSE, of |-> NoBytes]     \* "mock_signature": hex::decode fails
EmptySignature == [hex |-> TRUE, of |-> NoBytes]     \* "": the hex of zero bytes
\* hex::decode
sig_hex_decode(text) == [ok |-> text.hex, bytes |-> text.of]

\* lines 119-146
sign_with(v, signing_key, issuer_id, issuer_seq_no) ==
    LET w == [v EXCEPT !.issuer_id = issuer_id, !.issuer_seq_no = issuer_seq_no]
    IN [w EXCEPT !.issuer_sig =
            hex_encode(ed25519_sign(signing_key, to_vec(signable(w))))]

\* lines 149-175: "true" and "false" are Ok(true) and Ok(false)
verify_signature(v, key) ==
    LET serialized == to_vec(signable(v))
        decoded == sig_hex_decode(v.issuer_sig)
    IN IF ~decoded.ok THEN "err"
       ELSE IF decoded.bytes.len # 64 THEN "err"
       ELSE IF ed25519_verify(key, serialized, decoded.bytes) THEN "true" ELSE "false"

\* a verdict as its author fills it in before signing
UnsignedVerdict ==
    [target_id |-> "t1", tx_hash |-> Some("0xab"), outcome |-> "good",
     details |-> None, metric |-> None, issued_at |-> 1000, issuer_id |-> "",
     issuer_seq_no |-> 0, issuer_sig |-> EmptySignature, tx_receipt |-> None,
     evidence_blobs |-> None]

\* the signed fields, and for each a value other than the one a field holds
SignedFields == {"target_id", "tx_hash", "outcome", "details", "metric", "issued_at",
                 "issuer_id", "issuer_seq_no", "tx_receipt", "evidence_blobs"}
OtherValue(field, value) ==
    CASE field = "target_id"      -> IF value = "t1" THEN "t2" ELSE "t1"
      [] field = "tx_hash"        -> IF ~value.some THEN Some("0xab") ELSE None
      [] field = "outcome"        -> IF value = "good" THEN "bad" ELSE "good"
      [] field = "details"        -> IF ~value.some THEN Some("late") ELSE None
      [] field = "metric"         -> IF ~value.some THEN Some("transaction") ELSE None
      [] field = "issued_at"      -> IF value = 1000 THEN 1001 ELSE 1000
      [] field = "issuer_id"      -> IF value = "i1" THEN "i2" ELSE "i1"
      [] field = "issuer_seq_no"  -> IF value = 1 THEN 2 ELSE 1
      [] field = "tx_receipt"     -> IF ~value.some THEN Some("r1") ELSE None
      [] field = "evidence_blobs" -> IF ~value.some THEN Some("[e1]") ELSE None

NoSigned == [made |-> FALSE, key |-> "none", verdict |-> UnsignedVerdict]
NoVerify == [result |-> "none", key |-> "none"]

SgInit ==
    /\ sg_verdict = UnsignedVerdict
    /\ sg_signed = NoSigned
    /\ sg_ret = NoVerify

SignWith(signing_key, issuer_id, issuer_seq_no) ==
    /\ ~sg_signed.made
    /\ LET v == sign_with(sg_verdict, signing_key, issuer_id, issuer_seq_no)
       IN /\ sg_verdict' = v
          /\ sg_signed' = [made |-> TRUE, key |-> signing_key, verdict |-> v]
    /\ sg_ret' = NoVerify

\* a signed field of the verdict changes after signing
ChangeField(field) ==
    /\ sg_signed.made
    /\ sg_verdict' = [sg_verdict EXCEPT ![field] = OtherValue(field, @)]
    /\ Cardinality({f \in SignedFields : sg_verdict'[f] # sg_signed.verdict[f]})
           <= SgMaxChanges
    /\ sg_ret' = NoVerify
    /\ UNCHANGED sg_signed

\* the signature text is replaced
ChangeSignature(text) ==
    /\ sg_signed.made
    /\ sg_verdict' = [sg_verdict EXCEPT !.issuer_sig = text]
    /\ sg_ret' = NoVerify
    /\ UNCHANGED sg_signed

VerifySignature(signing_key) ==
    /\ sg_ret' = [result |-> verify_signature(sg_verdict, verifying_key(signing_key)),
                  key |-> signing_key]
    /\ UNCHANGED <<sg_verdict, sg_signed>>

SgNext ==
    \/ \E k \in SgKeys : SignWith(k, "i1", 1) /\ UNCHANGED notSg
    \/ \E f \in SignedFields : ChangeField(f) /\ UNCHANGED notSg
    \/ \E t \in {MockSignature, EmptySignature} : ChangeSignature(t) /\ UNCHANGED notSg
    \/ \E k \in SgKeys : VerifySignature(k) /\ UNCHANGED notSg

(***************************************************************************)
(*     reputation.rs : TransactionVerdict::validate and the record         *)
(***************************************************************************)
MAX_DETAILS_LEN == 1024

\* String::len of the texts used as details
text_len(text) == IF text = "oversize" THEN MAX_DETAILS_LEN + 1 ELSE 4

\* lines 91-108
validate(v) ==
    IF v.issuer_id = "" THEN "issuer_id missing"
    ELSE IF v.target_id = "" THEN "target_id missing"
    ELSE IF v.issuer_id = v.target_id THEN "issuer_id must not equal target_id"
    ELSE IF v.details.some /\ text_len(v.details.val) > MAX_DETAILS_LEN
    THEN "details exceed 1 KB limit"
    ELSE "ok"

\* the signing key of each issuer
IssuerKey(issuer_id) == IF issuer_id = "i2" THEN "k2" ELSE "k1"

\* the verdicts handed to add_verdict: a sound one; one about its own issuer;
\* one without issuer; one with 1025 bytes of details; one whose outcome was
\* changed after signing
InsertInputs ==
    {sign_with(UnsignedVerdict, "k1", "i1", 1),
     sign_with([UnsignedVerdict EXCEPT !.target_id = "i1"], "k1", "i1", 2),
     sign_with(UnsignedVerdict, "k1", "", 3),
     sign_with([UnsignedVerdict EXCEPT !.details = Some("oversize")], "k1", "i1", 4),
     [sign_with(UnsignedVerdict, "k2", "i2", 1) EXCEPT !.outcome = "bad"]}

RepInsertNext ==
    \/ \E v \in InsertInputs : AddVerdict(v) /\ UNCHANGED notRep
    \/ RepClock /\ UNCHANGED notRep

(***************************************************************************)
(*     reputation.rs : TrustLevel and calculate_transaction_score          *)
(* f64 values are modelled as exact fractions num/den.  The sums are sums  *)
(* of multiples of powers of 1/2 and so exact in f64; the one division is  *)
(* rounded to the nearest f64, which keeps its order against the literals  *)
(* 0.2 .. 0.8 because no quotient of the modelled sizes lies within one    *)
(* rounding step of a literal without being equal to it.                   *)
(***************************************************************************)
MaxScoreLen == 3            \* verdicts handed to one call
ScoreGridMax == 24          \* from_score is applied to k/20 for k up to here
ScNow == 20000000           \* SystemTime::now() in seconds
DEFAULT_DECAY_HALF_LIFE == 90

VerdictOutcomes == {"good", "disputed", "bad"}

Rat(n, d) == [num |-> n, den |-> d]
RatAdd(a, b) == Rat(a.num * b.den + b.num * a.den, a.den * b.den)
RatMul(a, b) == Rat(a.num * b.num, a.den * b.den)
RatDiv(a, b) == Rat(a.num * b.den, a.den * b.num)
RatGe(a, b) == a.num * b.den >= b.num * a.den
RatGt(a, b) == a.num * b.den > b.num * a.den
RatEq(a, b) == a.num * b.den = b.num * a.den

from_score_exclusive(score) ==
    IF RatGt(score, Rat(4, 5)) THEN "Trusted"
    ELSE IF RatGt(score, Rat(3, 5)) THEN "High"
    ELSE IF RatGt(score, Rat(2, 5)) THEN "Medium"
    ELSE IF RatGt(score, Rat(1, 5)) THEN "Low"
    ELSE "Unknown"

\* lines 273-285
from_score(score) ==
    IF RatGe(score, Rat(4, 5)) THEN "Trusted"
    ELSE IF RatGe(score, Rat(3, 5)) THEN "High"
    ELSE IF RatGe(score, Rat(2, 5)) THEN "Medium"
    ELSE IF RatGe(score, Rat(1, 5)) THEN "Low"
    ELSE "Unknown"

TrustLevels == {"Unknown", "Low", "Medium", "High", "Trusted"}

\* lines 287-295
min_score(level) ==
    CASE level = "Trusted" -> Rat(4, 5)
      [] level = "High"    -> Rat(3, 5)
      [] level = "Medium"  -> Rat(2, 5)
      [] level = "Low"     -> Rat(1, 5)
      [] level = "Unknown" -> Rat(0, 1)

\* lines 297-305
max_score(level) ==
    CASE level = "Trusted" -> Rat(1, 1)
      [] level = "High"    -> Rat(4, 5)
      [] level = "Medium"  -> Rat(3, 5)
      [] level = "Low"     -> Rat(2, 5)
      [] level = "Unknown" -> Rat(1, 5)

outcome_value_disputed_zero(outcome) ==
    CASE outcome = "good"     -> Rat(1, 1)
      [] outcome = "disputed" -> Rat(0, 1)
      [] outcome = "bad"      -> Rat(0, 1)

\* lines 389-393
outcome_value(outcome) ==
    CASE outcome = "good"     -> Rat(1, 1)
      [] outcome = "disputed" -> Rat(1, 2)
      [] outcome = "bad"      -> Rat(0, 1)

RECURSIVE pow2(_)
pow2(k) == IF k = 0 THEN 1 ELSE 2 * pow2(k - 1)

\* lines 413-424: 0.5^(age_days / half_life), for the ages that are whole
\* multiples of the half-life
calculate_time_decay_weight(issued_at, half_life_days) ==
    LET age_seconds == IF ScNow >= issued_at THEN ScNow - issued_at ELSE 0
    IN Rat(1, pow2(age_seconds \div (half_life_days * SECONDS_PER_DAY)))

\* lines 380-410
calculate_transaction_score(vs, decay_half_life) ==
    IF vs = <<>> THEN Rat(0, 1)
    ELSE
      LET weight(v) == IF decay_half_life > 0
                       THEN calculate_time_decay_weight(v.issued_at, decay_half_life)
                       ELSE Rat(1, 1)
          sums[n \in 0..Len(vs)] ==
              IF n = 0 THEN [weighted_sum |-> Rat(0, 1), total_weight |-> Rat(0, 1)]
              ELSE [weighted_sum |-> RatAdd(sums[n - 1].weighted_sum,
                                            RatMul(outcome_value(vs[n].outcome),
                                                   weight(vs[n]))),
                    total_weight |-> RatAdd(sums[n - 1].total_weight, weight(vs[n]))]
          weighted_sum == sums[Len(vs)].weighted_sum
          total_weight == sums[Len(vs)].total_weight
      IN IF RatGt(total_weight, Rat(0, 1))
         THEN RatDiv(weighted_sum, total_weight)
         ELSE Rat(0, 1)

\* the part of a verdict the score reads: issued now or one default
\* half-life ago
ScVerdicts ==
    [outcome : VerdictOutcomes,
     issued_at : {ScNow, ScNow - DEFAULT_DECAY_HALF_LIFE * SECONDS_PER_DAY}]

ScLists == UNION {[1..n -> ScVerdicts] : n \in 0..MaxScoreLen}

NoScore == [op |-> "none", verdicts |-> <<>>, decay_half_life |-> 0,
            score |-> Rat(0, 1), level |-> "Unknown"]

ScInit == sc_ret = NoScore

CalculateTransactionScore(vs, decay_half_life) ==
    LET score == calculate_transaction_score(vs, decay_half_life)
    IN sc_ret' = [op |-> "calculate_transaction_score", verdicts |-> vs,
                  decay_half_life |-> decay_half_life,
                  score |-> score, level |-> from_score(score)]

FromScore(score) ==
    sc_ret' = [op |-> "from_score", verdicts |-> <<>>, decay_half_life |-> 0,
               score |-> score, level |-> from_score(score)]

\* one call per run: the functions are pure
ScNext ==
    \/ \E vs \in ScLists, h \in {0, DEFAULT_DECAY_HALF_LIFE} :
           sc_ret.op = "none" /\ CalculateTransactionScore(vs, h) /\ UNCHANGED notSc
    \/ \E k \in 0..ScoreGridMax :
           sc_ret.op = "none" /\ FromScore(Rat(k, 20)) /\ UNCHANGED notSc

(***************************************************************************)
(*      dht.rs : the command loop with every command and its errors        *)
(***************************************************************************)
MaxCmds == 3           \* commands accepted by the channel in one run

NoCmdLog == [accepted |-> << >>, handled |-> << >>]
OrdInit == cmd_log = NoCmdLog

\* the call a handler makes on the swarm, or the reply it sends
effect_of(cmd, outcome) ==
    CASE cmd.type = "PublishFile" ->
             IF outcome = "serialize failed" THEN "none" ELSE "put_record"
      [] cmd.type = "SearchFile" -> "get_record"
      [] cmd.type = "ConnectPeer" ->
             IF outcome = "invalid address" THEN "none" ELSE "dial"
      [] cmd.type = "GetPeerCount" -> "peer count reply"
      [] OTHER -> "none"

\* history: the command the channel has just accepted, if any
Accepted ==
    /\ Len(cmd_log.accepted) < MaxCmds
    /\ cmd_log' = IF Len(cmd_chan') > Len(cmd_chan)
                  THEN [cmd_log EXCEPT !.accepted = Append(@, cmd_chan'[Len(cmd_chan')])]
                  ELSE cmd_log

\* history: the command just handled and what was issued for it
Handled(outcome) ==
    cmd_log' = [cmd_log EXCEPT !.handled =
                   Append(@, [cmd |-> Head(cmd_chan),
                              effect |-> effect_of(Head(cmd_chan), outcome)])]

\* caller a1 makes the calls that return at once, caller a2 those that wait
\* for the task's reply
DhtOrdNext ==
    \/ \E h \in FileHashes : PublishFileCall("a1", h) /\ Accepted /\ UNCHANGED notDhtOrd
    \/ \E h \in FileHashes : SearchFileCall("a1", h) /\ Accepted /\ UNCHANGED notDhtOrd
    \/ \E a \in Addrs : ConnectPeerCall("a1", a) /\ Accepted /\ UNCHANGED notDhtOrd
    \/ GetPeerCountCall("a2") /\ Accepted /\ UNCHANGED notDhtOrd
    \/ ShutdownCall("a2") /\ Accepted /\ UNCHANGED notDhtOrd
    \/ \E o \in CmdOutcomes : RecvCmd(o) /\ Handled(o) /\ UNCHANGED notDhtOrd
    \/ SendPending /\ UNCHANGED <<cmd_log, notDhtOrd>>
    \/ \E max \in 1..EventCap : DrainEvents(max) /\ UNCHANGED <<cmd_log, notDhtOrd>>
    \/ ExitClear /\ UNCHANGED <<cmd_log, notDhtOrd>>
    \/ ExitAck /\ UNCHANGED <<cmd_log, notDhtOrd>>
    \/ ExitDrop /\ UNCHANGED <<cmd_log, notDhtOrd>>

\* the task's own steps are taken when they can be; nothing obliges the
\* callers to call or the application to drain the events
DhtTaskStep ==
    \/ \E o \in CmdOutcomes : RecvCmd(o) /\ Handled(o) /\ UNCHANGED notDhtOrd
    \/ SendPending /\ UNCHANGED <<cmd_log, notDhtOrd>>
    \/ ExitClear /\ UNCHANGED <<cmd_log, notDhtOrd>>
    \/ ExitAck /\ UNCHANGED <<cmd_log, notDhtOrd>>
    \/ ExitDrop /\ UNCHANGED <<cmd_log, notDhtOrd>>

(***************************************************************************)
(*                 manager.rs : ChunkManager::load_manifest                *)
(***************************************************************************)
\* a stored manifest with one field other than manifest_hash changed
ManifestEdits(m) ==
    {[m EXCEPT !.version = "2.0"],
     [m EXCEPT !.file_hash = manager_hash_file(<<B(0)>> \o @.sha256_hex)],
     [m EXCEPT !.file_name.stem = "b"],
     [m EXCEPT !.file_size = @ + 1],
     [m EXCEPT !.mime_type = "application/octet-stream"],
     [m EXCEPT !.chunk_size = @ + 1],
     [m EXCEPT !.total_chunks = @ + 1],
     [m EXCEPT !.encryption.algorithm = IF @ = "none" THEN "AES-256-GCM" ELSE "none"],
     [m EXCEPT !.timestamps.modified = @ + 1]}
      \cup {[m EXCEPT !.chunks = SubSeq(@, 1, Len(@) - 1)] : i \in 1..Len(m.chunks)}
      \cup {[m EXCEPT !.chunks[i].index = @ + 1] : i \in 1..Len(m.chunks)}
      \cup {[m EXCEPT !.chunks[i].hash = m.file_hash] : i \in 1..Len(m.chunks)}
      \cup {[m EXCEPT !.chunks[i].size = @ + 1] : i \in 1..Len(m.chunks)}
      \cup {[m EXCEPT !.chunks[i].encrypted_size = @ + 1] : i \in 1..Len(m.chunks)}
      \cup {[m EXCEPT !.chunks[i].offset = @ + 1] : i \in 1..Len(m.chunks)}

\* a manifest file is changed on disk, its manifest_hash left as it was
AlterManifest(path, edited) ==
    /\ mg_pc = "idle"
    /\ ~rc_tampered
    /\ rc_tampered' = TRUE
    /\ UNCHANGED rc_ret
    /\ \E f \in mg_manifests :
          /\ f.path = path
          /\ f.complete
          /\ edited \in ManifestEdits(f.manifest)
          /\ edited # f.manifest
          /\ mg_manifests' = (mg_manifests \ {f})
                                \cup {[f EXCEPT !.manifest = edited, !.altered = TRUE]}
    /\ UNCHANGED <<mg_files, mg_pc, mg_op, mg_clock, mg_ret, mg_hist>>

LoadManifest(file_hash) ==
    /\ mg_pc = "idle"
    /\ LET r == load_manifest(mg_manifests, file_hash)
       IN rc_ret' = [called |-> TRUE, result |-> r.result, manifest |-> r.manifest,
                     key |-> NoKey, out |-> << >>, file_hash |-> file_hash]
    /\ UNCHANGED rc_tampered

\* a run ends with one load_manifest call on the store as it then is
MfNext ==
    \/ \E n \in MgFileNames, d \in RcPlaintexts, e \in BOOLEAN :
           ~rc_ret.called /\ IngestBegin(n, d, e, TRUE) /\ UNCHANGED notMg
    \/ ~rc_ret.called /\ IngestChunk("ok") /\ UNCHANGED notMg
    \/ \E o \in ManifestOutcomes :
           ~rc_ret.called /\ IngestFinish(o) /\ UNCHANGED notMg
    \/ \E f \in mg_manifests :
         \E m \in ManifestEdits(f.manifest) :
           ~rc_ret.called /\ AlterManifest(f.path, m) /\ UNCHANGED notMgRc
    \/ \E d \in RcPlaintexts :
           ~rc_ret.called /\ LoadManifest(manager_hash_file(d)) /\ UNCHANGED notRc

(***************************************************************************)
(*                      dht.rs : DhtService::new                           *)
(***************************************************************************)
MaxBootstrapNodes == 4     \* configured bootstrap addresses

\* per bootstrap address: the parse and swarm.dial turn out as one of these
DialResults == {"dialed", "dial failed", "invalid address"}
BootstrapRuns == UNION {[1..n -> DialResults] : n \in 0..MaxBootstrapNodes}

\* lines 563-606: the loop over bootstrap_nodes; `m` is the DhtMetrics that
\* the failure branches write to
RECURSIVE dial_bootstrap_nodes(_, _, _)
dial_bootstrap_nodes(results, successful_connections, m) ==
    IF results = << >>
    THEN [successful_connections |-> successful_connections, metrics |-> m]
    ELSE IF Head(results) = "dialed"
    THEN dial_bootstrap_nodes(Tail(results), successful_connections + 1, m)
    ELSE dial_bootstrap_nodes(Tail(results), successful_connections,
             [m EXCEPT !.bootstrap_failures = @ + 1,
                       !.last_error = Head(results),
                       !.last_error_at = 0])

\* lines 608-630: the initial kademlia.bootstrap() is triggered only after a
\* dial was initiated
initial_bootstrap(results, successful_connections) ==
    results # << >> /\ successful_connections > 0

\* lines 622-626: the counter seeded when no dial was initiated
seed_failures(results, successful_connections, m) ==
    IF results # << >> /\ successful_connections = 0
    THEN [m EXCEPT !.consecutive_bootstrap_failures = 1]
    ELSE m

\* lines 635, 644: the metrics handed to run_dht_node are created after the
\* loop, `Arc::new(Mutex::new(DhtMetrics::default()))`; what lines 592-626
\* wrote through `metrics.try_lock()` is not in them
task_metrics(written) == DefaultMetrics

NoNew == [called |-> FALSE, results |-> << >>, initial_bootstrap |-> FALSE]
NwInit == dht_new = NoNew

\* DhtService::new(port, bootstrap_nodes, secret), lines 558-653
DhtServiceNew(results) ==
    /\ ~dht_new.called
    /\ LET loop == dial_bootstrap_nodes(results, 0, DefaultMetrics)
           written == seed_failures(results, loop.successful_connections, loop.metrics)
       IN /\ dht_new' = [called |-> TRUE, results |-> results,
                         initial_bootstrap |->
                             initial_bootstrap(results, loop.successful_connections)]
          /\ metrics' = task_metrics(written)
    /\ UNCHANGED <<dht_now, bootstrap_interval, connected_peers, open_conns, task_pc,
                   shutdown_ack, pending_event, cmd_chan, event_chan, queries, api_ret,
                   shutdown_ok, periodic>>

NwNext ==
    \E results \in BootstrapRuns : DhtServiceNew(results) /\ UNCHANGED notDhtNw

(***************************************************************************)
(*      reputation.rs : automatic blacklisting of a peer without verdicts  *)
(***************************************************************************)
\* ReputationConfig::default(), lines 353-373: mode "hybrid", automatic
\* blacklisting enabled, thresholds 0.2 and 3, retention 30 days
DefaultReputationConfig == BlConfig("hybrid", TRUE)

\* an f64 score on the blacklist model's scale of tenths
tenths(score) == (score.num * 10) \div score.den

\* check_auto_blacklist for a peer nobody has issued a verdict about: the
\* score is calculate_transaction_score of the empty list, the count of bad
\* verdicts is 0
CheckNewPeer(peer_id) ==
    CheckAutoBlacklist(peer_id,
        tenths(calculate_transaction_score(<< >>, DEFAULT_DECAY_HALF_LIFE)), 0)

BlNewPeerNext ==
    \/ BlacklistManagerNew(DefaultReputationConfig) /\ UNCHANGED notBl
    \/ \E peer \in BlPeers : AddManual(peer) /\ UNCHANGED notBl
    \/ \E peer \in BlPeers : CheckNewPeer(peer) /\ UNCHANGED notBl
    \/ \E peer \in BlPeers : BlRemove(peer) /\ UNCHANGED notBl
    \/ CleanupExpired /\ UNCHANGED notBl
    \/ BlTick /\ UNCHANGED notBl

Init == RepInit /\ StInit /\ DhtInit /\ CkInit /\ MgInit /\ SvInit /\ CaInit /\ RcInit /\ MkInit /\ BlInit /\ CsInit /\ SgInit /\ ScInit /\ OrdInit /\ NwInit

SpecRep     == Init /\ [][RepNext]_vars
SpecStorage == Init /\ [][StNext]_vars
SpecDhtBoot == Init /\ [][DhtBootNext]_vars
SpecDhtCmd  == Init /\ [][DhtCmdNext]_vars
SpecChunks  == Init /\ [][CkNext]_vars
SpecManager == Init /\ [][MgNext]_vars
SpecSave    == Init /\ [][SvNext]_vars
SpecChunksAltered == Init /\ [][CkAlteredNext]_vars
SpecReconstruct == Init /\ [][RcNext]_vars
SpecMarketNodes == Init /\ [][MkNodesNext]_vars
SpecMarketSuppliers == Init /\ [][MkSuppliersNext]_vars
SpecBlacklist == Init /\ [][BlNext]_vars
SpecCache == Init /\ [][CsNext]_vars
SpecSign == Init /\ [][SgNext]_vars
SpecRepInsert == Init /\ [][RepInsertNext]_vars
SpecScore == Init /\ [][ScNext]_vars
SpecDhtOrder == Init /\ [][DhtOrdNext]_vars
SpecManifest == Init /\ [][MfNext]_vars
SpecDhtNew == Init /\ [][NwNext]_vars
SpecStorageSeq == Init /\ [][StSeqNext]_vars
SpecDhtConn == Init /\ [][DhtConnNext]_vars
SpecNewPeer == Init /\ [][BlNewPeerNext]_vars
SpecDhtOrderFair == SpecDhtOrder /\ WF_vars(DhtTaskStep)

(***************************************************************************)
(*                                 Claims                                  *)
(***************************************************************************)
UniquePairs(vs) ==
    \A i, j \in 1..Len(vs) :
        (vs[i].issuer_id = vs[j].issuer_id /\ vs[i].issuer_seq_no = vs[j].issuer_seq_no)
            => i = j

\* C1: no two verdicts of the record share (issuer_id, issuer_seq_no); an
\* add_verdict call whose pair is already present leaves verdicts and
\* last_updated unchanged, and no call grows the list by more than one.
C1_VerdictDedupe ==
    /\ []UniquePairs(verdicts)
    /\ [][rep_calls' # rep_calls =>
            /\ Len(verdicts') <= Len(verdicts) + 1
            /\ (\E i \in 1..Len(verdicts) :
                    /\ verdicts[i].issuer_id = rep_arg'.issuer_id
                    /\ verdicts[i].issuer_seq_no = rep_arg'.issuer_seq_no)
                  => (verdicts' = verdicts /\ last_updated' = last_updated)]_vars

\* C1 witness: the same pair was offered again with another outcome at a
\* later time, and the record kept only the first verdict.
C1_Witness ==
    /\ rep_calls >= 2
    /\ Len(verdicts) = 1
    /\ rep_arg.issuer_id = verdicts[1].issuer_id
    /\ rep_arg.issuer_seq_no = verdicts[1].issuer_seq_no
    /\ rep_arg.outcome # verdicts[1].outcome
    /\ rep_now > last_updated

\* C2: a successful store_chunk followed, with no other call in between, by a
\* successful delete_chunk of the same hash restores used_capacity and
\* removes the hash from list_chunks.
C2_StoreThenDelete ==
    \A p \in Procs :
        st_pair[p].stage = "done" =>
            /\ used_capacity = st_pair[p].used_before
            /\ st_pair[p].hash \notin list_chunks

\* C2 witness: such a pair finished in a state where the counter was not 0
\* before the store and another caller is in the middle of a call.
C2_Witness ==
    \E p \in Procs :
        /\ st_pair[p].stage = "done"
        /\ st_pair[p].used_before > 0
        /\ \E q \in Procs : st_pc[q] # "idle"

\* C3: used_capacity never exceeds total_capacity, and no statistics
\* snapshot reports an underflowed available_capacity.
C3_CapacityBound ==
    /\ used_capacity <= TotalCapacity
    /\ \A p \in Procs :
           st_ret[p].result = "stats" => st_ret[p].available_capacity # Underflow

\* C4: a periodic bootstrap attempt made while consecutive_bootstrap_failures
\* is k >= 1, with no connection established since the previous attempt,
\* comes at least min(30 * 2^min(k,4), 300) seconds after the previous one.
C4_BackoffSpacing ==
    [][(/\ periodic'.flip # periodic.flip
        /\ periodic.at # NoTime
        /\ periodic.quiet
        /\ metrics.consecutive_bootstrap_failures >= 1)
          => dht_now - periodic.at >=
                Min(30 * 2^Min(metrics.consecutive_bootstrap_failures, 4), 300)]_vars

\* C5: a connection established while the bootstrap timer is backed off
\* (period above 30 s) sets consecutive_bootstrap_failures to 0 and puts the
\* timer back on the 30 s cadence, the next tick coming 30 s later at most.
C5_ConnectionResetsBackoff ==
    [][(/\ \E p \in Peers : open_conns'[p] > open_conns[p]
        /\ bootstrap_interval.period > 30)
          => /\ metrics'.consecutive_bootstrap_failures = 0
             /\ bootstrap_interval'.period = 30
             /\ bootstrap_interval'.deadline <= dht_now + 30]_vars

\* C6: a periodic tick issues a bootstrap if and only if fewer than 2 peers
\* are connected, consecutive_bootstrap_failures is below 5 and at least 30 s
\* have passed since last_bootstrap (or none was recorded); bootstraps of the
\* periodic kind are issued by ticks only.
C6_BootstrapDecision ==
    /\ [][bootstrap_interval' # bootstrap_interval =>
            (periodic'.flip # periodic.flip <=>
                /\ Cardinality(connected_peers) < 2
                /\ metrics.consecutive_bootstrap_failures < 5
                /\ (metrics.last_bootstrap = NoTime
                      \/ dht_now - metrics.last_bootstrap >= 30))]_vars
    /\ [][periodic'.flip # periodic.flip =>
            /\ bootstrap_interval' # bootstrap_interval
            /\ Cardinality(connected_peers) < 2
            /\ metrics.consecutive_bootstrap_failures < 5]_vars

\* C6 witness: after an earlier attempt, a tick declined to bootstrap with
\* fewer than 2 peers connected because of 5 or more consecutive failures
\* (the timer was re-created with a backed-off period, which only a
\* declining tick does).
C6_Witness ==
    /\ periodic.at # NoTime
    /\ Cardinality(connected_peers) < 2
    /\ metrics.consecutive_bootstrap_failures >= 5
    /\ bootstrap_interval.period > 30
    /\ dht_now - metrics.last_bootstrap >= 30

\* C7: once shutdown has returned Ok the task has left its loop and the peer
\* set is empty, every later get_peer_count and metrics_snapshot call
\* returns 0 and every later shutdown call returns Ok.
C7_ShutdownQuiesces ==
    /\ shutdown_ok => (task_pc \in {"returning", "exited"} /\ connected_peers = {})
    /\ \A c \in Callers :
          (api_ret[c].late /\ api_ret[c].result # "pending") =>
              /\ api_ret[c].call \in {"get_peer_count", "metrics_snapshot"}
                    => api_ret[c].count = 0
              /\ api_ret[c].call = "shutdown" => api_ret[c].result = "ok"

\* C8: a get_record query started for a SearchFile command does not end
\* (by a final result, a not-found error or a timeout) without a
\* FileDiscovered or FileNotFound event having been sent for it.
C8_SearchAnswered ==
    \A i \in 1..MaxSearches : queries[i].state = "finished" => queries[i].emitted

\* C9: reassemble_file applied to the chunk list that chunk_file returned for
\* a plaintext, with the same key, succeeds and writes an output whose bytes
\* equal the plaintext.
C9_ReassembleRoundTrip ==
    ck_pc = "done" => (ck_result = "ok" /\ ck_out.data = ck_input.data)

\* the (hash, size, encrypted_size) of the chunks of a manifest, in order
ChunkHashesAndSizes(m) ==
    [i \in 1..Len(m.chunks) |->
        <<m.chunks[i].hash, m.chunks[i].size, m.chunks[i].encrypted_size>>]

\* C10: when the same bytes are ingested by two successful calls in a row,
\* the two manifests have the same file_hash and the same ordered chunk
\* hashes and sizes, the same set of files is under chunks/ after both, and
\* no file that was there after the first call was written again.
C10_IngestTwice ==
    mg_hist.twice =>
        /\ mg_hist.manifest.file_hash = mg_hist.prev_manifest.file_hash
        /\ ChunkHashesAndSizes(mg_hist.manifest) = ChunkHashesAndSizes(mg_hist.prev_manifest)
        /\ {f.path : f \in mg_hist.files} = {f.path : f \in mg_hist.prev_files}
        /\ mg_hist.prev_files \subseteq mg_hist.files

\* C10 witness: a file of two identical chunks was ingested twice in a row
\* into a store that keeps that chunk encrypted, written by an earlier call.
C10_Witness ==
    /\ mg_hist.twice
    /\ Len(mg_hist.manifest.chunks) = 2
    /\ mg_hist.manifest.chunks[1].hash = mg_hist.manifest.chunks[2].hash
    /\ \E f \in mg_hist.files :
          /\ f.path = get_chunk_path(mg_hist.manifest.chunks[1].hash)
          /\ Len(f.data) > mg_hist.manifest.chunks[1].size
          /\ f.written < mg_clock

\* C11: when both ingests have returned from save_chunk_atomic for the same
\* hash, both returned Ok and the file <hash> holds the complete data of one
\* of them.
C11_ConcurrentSave ==
    (\A w \in MgWriters : sv_w[w].pc = "done") =>
        /\ \A w \in MgWriters : sv_w[w].result = "ok"
        /\ sv_names[sv_chunk_path] # NoInode
        /\ sv_inodes[sv_names[sv_chunk_path]] \in {sv_w[w].data : w \in MgWriters}

\* C12: at every step of a chunk write, a crash included, the path <hash>
\* (chunks/ of manager.rs, storage_path of chunks.rs) is absent or holds
\* complete chunk bytes.
C12_NoPartialChunk ==
    \A p \in {sv_chunk_path, sv_file_path} :
        sv_names[p] # NoInode => sv_inodes[sv_names[p]] \in SvData

\* C13: a frame produced by chunk_file of which one byte before the trailing
\* checksum was changed is rejected by validate_chunk, and reassemble_file
\* over a store holding it does not return Ok.
C13_AlteredFrameRejected ==
    /\ \A f \in ck_disk : f.name \in ck_altered => ~validate_chunk(f.data)
    /\ (ck_altered # {} /\ ck_pc = "done") => ck_result # "ok"

\* C13 witness: reassemble_file met the altered frame and stopped on the
\* failed validation.
C13_Witness ==
    /\ ck_altered # {}
    /\ ck_pc = "done"
    /\ ck_result = "err_validation"

\* the plaintext reconstruct_file obtains for chunk i of manifest m
RcPlain(m, files, key, i) ==
    LET raw == manager_load_chunk(files, m.chunks[i].hash)
    IN IF encryption_is_some(m) /\ key # NoKey
       THEN manager_decrypt_chunk(raw, key)
       ELSE [ok |-> TRUE, data |-> raw]
RECURSIVE RcConcat(_, _, _, _)
RcConcat(m, files, key, n) ==
    IF n = 0 THEN << >>
    ELSE RcConcat(m, files, key, n - 1) \o RcPlain(m, files, key, n).data

\* C14: reconstruct_file returns Ok only if the manifest hash check passed,
\* every listed chunk was found and (where the manifest is encrypted)
\* decrypted, every chunk's plaintext hash and length equal its manifest
\* entry, and the bytes written, in manifest order, hash to file_hash.
C14_ReconstructChecks ==
    [][(rc_ret' # rc_ret /\ rc_ret'.result = "ok") =>
         LET m == rc_ret'.manifest
             k == rc_ret'.key
         IN /\ calculate_manifest_hash(m) = m.manifest_hash
            /\ \A i \in 1..Len(m.chunks) :
                  /\ chunk_exists(mg_files, m.chunks[i].hash)
                  /\ ~(encryption_is_some(m) /\ k = NoKey)
                  /\ RcPlain(m, mg_files, k, i).ok
                  /\ manager_hash_chunk(RcPlain(m, mg_files, k, i).data) = m.chunks[i].hash
                  /\ Len(RcPlain(m, mg_files, k, i).data) = m.chunks[i].size
            /\ rc_ret'.out = RcConcat(m, mg_files, k, Len(m.chunks))
            /\ manager_hash_file(rc_ret'.out) = m.file_hash]_vars

\* C14 witness: an encrypted file of two chunks was reconstructed with Ok.
C14_Witness ==
    /\ rc_ret.result = "ok"
    /\ Len(rc_ret.manifest.chunks) = 2
    /\ encryption_is_some(rc_ret.manifest)
    /\ rc_ret.key # NoKey

\* C15: query_storage_nodes(size, r) returns min(r, m) of the m registered
\* nodes with available >= size, uptime > 0.9 and reputation > 3.0, ordered
\* by price ascending and reputation descending on equal price, and no node
\* left out comes before a returned one in that order.
C15_QueryStorageNodes ==
    mk_ret.op = "query_storage_nodes" =>
        LET list == mk_ret.list
            eligible == {node \in mk_storage_nodes :
                            /\ node.available >= mk_ret.arg
                            /\ node.uptime > MIN_UPTIME
                            /\ node.reputation > MIN_REPUTATION}
            returned == {list[i] : i \in DOMAIN list}
        IN /\ mk_ret.result = "ok"
           /\ returned \subseteq eligible
           /\ Cardinality(returned) = Len(list)
           /\ Len(list) = Min(mk_ret.n, Cardinality(eligible))
           /\ \A i, j \in DOMAIN list : i < j =>
                 \/ list[i].price_per_mb < list[j].price_per_mb
                 \/ /\ list[i].price_per_mb = list[j].price_per_mb
                    /\ list[i].reputation >= list[j].reputation
           /\ \A out \in eligible \ returned : \A i \in DOMAIN list :
                 \/ list[i].price_per_mb < out.price_per_mb
                 \/ /\ list[i].price_per_mb = out.price_per_mb
                    /\ list[i].reputation >= out.reputation

\* C15 witness: three eligible nodes, two asked for; the cheapest comes
\* first, and of the two on the next price the one of better reputation is
\* returned and the other left out.
C15_Witness ==
    /\ mk_ret.op = "query_storage_nodes"
    /\ mk_ret.n = 2
    /\ Len(mk_ret.list) = 2
    /\ mk_ret.list[1].price_per_mb < mk_ret.list[2].price_per_mb
    /\ \E out \in mk_storage_nodes :
          /\ suitable(out, mk_ret.arg)
          /\ out.price_per_mb = mk_ret.list[2].price_per_mb
          /\ out.reputation < mk_ret.list[2].reputation

\* the suppliers pushed under hash h that were seen at most 299 s before now
RecentUnder(h) ==
    {i \in DOMAIN mk_file_suppliers[h] :
        /\ mk_file_suppliers[h][i].last_seen <= mk_now
        /\ mk_now - mk_file_suppliers[h][i].last_seen < SUPPLIER_MAX_AGE}

\* C16: a lookup_file_suppliers(h) that returns gives exactly the suppliers
\* registered under h that were last seen less than 300 s before the current
\* time, each once, ordered by price ascending and by reputation descending
\* on equal price; a supplier registered under another hash only is not in it.
C16_LookupFileSuppliers ==
    (mk_ret.op = "lookup_file_suppliers" /\ mk_ret.result = "ok") =>
        LET list == mk_ret.list
            under == mk_file_suppliers[mk_ret.arg]
        IN /\ Len(list) = Cardinality(RecentUnder(mk_ret.arg))
           /\ \A i \in RecentUnder(mk_ret.arg) : \E j \in DOMAIN list : list[j] = under[i]
           /\ \A j \in DOMAIN list : \E i \in RecentUnder(mk_ret.arg) : list[j] = under[i]
           /\ \A i, j \in DOMAIN list : i < j =>
                 \/ list[i].price < list[j].price
                 \/ /\ list[i].price = list[j].price
                    /\ list[i].reputation >= list[j].reputation

\* C16 witness: under one hash a supplier seen 300 s ago is left out and a
\* recent one is returned, while the other hash has a recent supplier too.
C16_Witness ==
    /\ mk_ret.op = "lookup_file_suppliers"
    /\ mk_ret.result = "ok"
    /\ Len(mk_ret.list) = 1
    /\ \E s \in {mk_file_suppliers[mk_ret.arg][i] : i \in DOMAIN mk_file_suppliers[mk_ret.arg]} :
          mk_now - s.last_seen = SUPPLIER_MAX_AGE
    /\ \E h \in MkHashes : h # mk_ret.arg /\ RecentUnder(h) # {}

\* C17: lookup_file_suppliers returns Ok for every hash and registry content,
\* also when a supplier's last_seen is later than the current clock.
C17_LookupNeverFails ==
    mk_ret.op = "lookup_file_suppliers" => mk_ret.result = "ok"

\* C18: check_auto_blacklist(peer, score, bad) adds an automatic entry for the
\* peer and returns true exactly when automatic blacklisting is enabled, the
\* mode is not "manual", the score is below the score threshold or the count
\* has reached the bad-verdicts threshold, and the peer has no entry yet;
\* in every other case it returns false and the blacklist stays as it was.
C18_CheckAutoBlacklist ==
    [][bl_ret'.op = "check_auto_blacklist" =>
         LET peer == bl_ret'.peer_id
             due == /\ bl_config.blacklist_auto_enabled
                    /\ bl_config.blacklist_mode # "manual"
                    /\ \/ bl_ret'.score < bl_config.blacklist_score_threshold
                       \/ bl_ret'.bad_verdict_count >=
                              bl_config.blacklist_bad_verdicts_threshold
                    /\ \A e \in bl_entries : e.peer_id # peer
         IN IF due
            THEN /\ bl_ret'.value = TRUE
                 /\ \E e \in bl_entries' :
                       /\ e.peer_id = peer
                       /\ e.is_automatic
                       /\ e.blacklisted_at = bl_now
                       /\ bl_entries' = bl_entries \cup {e}
            ELSE /\ bl_ret'.value = FALSE
                 /\ bl_entries' = bl_entries]_vars

\* C18 witness: a peer whose score is fine but whose bad-verdict count is at
\* the threshold was blacklisted automatically.
C18_Witness ==
    /\ bl_ret.op = "check_auto_blacklist"
    /\ bl_ret.value = TRUE
    /\ bl_ret.score >= bl_config.blacklist_score_threshold
    /\ bl_ret.bad_verdict_count = bl_config.blacklist_bad_verdicts_threshold
    /\ \E e \in bl_entries : e.peer_id = bl_ret.peer_id /\ e.is_automatic

\* C19: cleanup_expired removes exactly the automatic entries that are older
\* than blacklist_retention days and returns how many they were; an entry
\* added by hand leaves the blacklist only through remove.
C19_CleanupExpired ==
    [][/\ bl_ret'.op = "cleanup_expired" =>
            LET old == {e \in bl_entries :
                           /\ e.is_automatic
                           /\ bl_now - e.blacklisted_at >
                                  bl_config.blacklist_retention * SECONDS_PER_DAY}
            IN /\ bl_entries' = bl_entries \ old
               /\ bl_ret'.value = Cardinality(old)
       /\ \A e \in bl_entries :
            (~e.is_automatic /\ ~is_blacklisted(bl_entries', e.peer_id)) =>
                (bl_ret'.op = "remove" /\ bl_ret'.peer_id = e.peer_id)]_vars

\* C19 witness: a cleanup removed one automatic entry while a manual entry of
\* the same age stayed.
C19_Witness ==
    /\ bl_ret.op = "cleanup_expired"
    /\ bl_ret.value = 1
    /\ \E e \in bl_entries :
          /\ ~e.is_automatic
          /\ bl_now - e.blacklisted_at > bl_config.blacklist_retention * SECONDS_PER_DAY

\* C20: get(peer) returns a score only if it is the one last set for the peer,
\* no clear came after it and its age is strictly below the TTL; while the age
\* of that set is below the TTL, get returns its score and trust level;
\* cleanup_stale removes exactly the entries whose age is the TTL or more and
\* returns how many they were.
C20_CacheFreshness ==
    [][/\ cs_ret'.op = "get" =>
            /\ cs_ret'.found =>
                 /\ cs_ret'.cached \in cs_set
                 /\ cs_ret'.cached.peer_id = cs_ret'.peer_id
                 /\ cs_now - cs_ret'.cached.cached_at < cs_cache.ttl
            /\ \A c \in cs_set :
                 (c.peer_id = cs_ret'.peer_id /\ cs_now - c.cached_at < cs_cache.ttl) =>
                     /\ cs_ret'.found
                     /\ cs_ret'.cached.score = c.score
                     /\ cs_ret'.cached.trust_level = c.trust_level
       /\ cs_ret'.op = "cleanup_stale" =>
            LET stale == {c \in cs_scores : cs_now - c.cached_at >= cs_cache.ttl}
            IN /\ cs_scores' = cs_scores \ stale
               /\ cs_ret'.count = Cardinality(stale)]_vars

\* C20 witness: with a TTL of 600 s, a get 300 s after the set returned the
\* score while the other peer's entry, set 600 s before, was stale.
C20_Witness ==
    /\ cs_ret.op = "get"
    /\ cs_ret.found
    /\ cs_now - cs_ret.cached.cached_at = CsStep
    /\ \E c \in cs_scores : cs_now - c.cached_at = cs_cache.ttl

\* C22: right after sign_with, verify_signature under the matching public key
\* returns true; once a signed field differs from what was signed, or under
\* another key, it returns false.
C22_SignVerify ==
    (sg_signed.made /\ sg_ret.result # "none"
        /\ sg_verdict.issuer_sig = sg_signed.verdict.issuer_sig) =>
      LET changed == {f \in SignedFields : sg_verdict[f] # sg_signed.verdict[f]}
      IN /\ (changed = {} /\ sg_ret.key = sg_signed.key) => sg_ret.result = "true"
         /\ (changed # {} \/ sg_ret.key # sg_signed.key) => sg_ret.result = "false"

\* C22 witness: a signed verdict whose tx_receipt alone was changed afterwards
\* was checked under the signer's key and rejected.
C22_Witness ==
    /\ sg_signed.made
    /\ sg_ret.result = "false"
    /\ sg_ret.key = sg_signed.key
    /\ {f \in SignedFields : sg_verdict[f] # sg_signed.verdict[f]} = {"tx_receipt"}

\* C21: every verdict held in the record passes validate (issuer and target
\* non-empty and different, details at most 1 KiB) and carries a signature
\* that verifies under its issuer's key: add_verdict keeps no other verdict.
C21_RecordHoldsValidVerdicts ==
    \A i \in 1..Len(verdicts) :
        /\ validate(verdicts[i]) = "ok"
        /\ verify_signature(verdicts[i],
                            verifying_key(IssuerKey(verdicts[i].issuer_id))) = "true"

ScCount(outcome) ==
    Cardinality({i \in 1..Len(sc_ret.verdicts) : sc_ret.verdicts[i].outcome = outcome})

\* C23: with time decay off (half-life 0), calculate_transaction_score of a
\* non-empty list is (good + 0.5 * disputed) / count, a value in [0, 1]; it
\* is 0 for the empty list; good, good, bad scores 2/3, which is level High.
C23_TransactionScore ==
    (sc_ret.op = "calculate_transaction_score" /\ sc_ret.decay_half_life = 0) =>
        LET n == Len(sc_ret.verdicts)
        IN /\ n = 0 => RatEq(sc_ret.score, Rat(0, 1))
           /\ n > 0 => RatEq(sc_ret.score,
                             Rat(2 * ScCount("good") + ScCount("disputed"), 2 * n))
           /\ RatGe(sc_ret.score, Rat(0, 1)) /\ RatGe(Rat(1, 1), sc_ret.score)
           /\ ([i \in 1..n |-> sc_ret.verdicts[i].outcome] = <<"good", "good", "bad">>
                 => RatEq(sc_ret.score, Rat(2, 3)) /\ sc_ret.level = "High")

C23_Witness ==
    /\ sc_ret.op = "calculate_transaction_score" /\ sc_ret.decay_half_life = 0
    /\ Len(sc_ret.verdicts) = 3
    /\ [i \in 1..3 |-> sc_ret.verdicts[i].outcome] = <<"good", "disputed", "bad">>
    /\ RatEq(sc_ret.score, Rat(1, 2))

\* C24: for a score s in [0, 1), from_score(s) is a level L with
\* L.min_score() <= s < L.max_score(); the five bands start at 0, 0.2, 0.4,
\* 0.6 and 0.8, no score lies in two of them, and 1.0 is Trusted.
C24_TrustBands ==
    (sc_ret.op = "from_score" /\ RatGe(Rat(1, 1), sc_ret.score)) =>
        LET s == sc_ret.score
            inside(level) == RatGe(s, min_score(level)) /\ RatGt(max_score(level), s)
        IN /\ RatGt(Rat(1, 1), s) =>
                 /\ inside(sc_ret.level)
                 /\ \A level \in TrustLevels : inside(level) => level = sc_ret.level
           /\ RatEq(s, Rat(1, 1)) => sc_ret.level = "Trusted"
           /\ sc_ret.level =
                 (CASE RatGe(s, Rat(4, 5)) -> "Trusted"
                    [] RatGe(s, Rat(3, 5)) /\ RatGt(Rat(4, 5), s) -> "High"
                    [] RatGe(s, Rat(2, 5)) /\ RatGt(Rat(3, 5), s) -> "Medium"
                    [] RatGe(s, Rat(1, 5)) /\ RatGt(Rat(2, 5), s) -> "Low"
                    [] RatGt(Rat(1, 5), s) -> "Unknown")

C24_Witness ==
    /\ sc_ret.op = "from_score" /\ RatEq(sc_ret.score, Rat(3, 5))
    /\ sc_ret.level = "High"

HandledCmds == [i \in 1..Len(cmd_log.handled) |-> cmd_log.handled[i].cmd]

\* C25: the node task handles the commands in the order the channel accepted
\* them, each at most once and issuing its put_record / get_record / dial /
\* peer-count reply at that point; no accepted command is skipped, so when a
\* Shutdown is handled every command accepted before it has been handled
\* exactly once.
C25_CommandOrder ==
    LET n == Len(cmd_log.handled) IN
    /\ n <= Len(cmd_log.accepted)
    /\ HandledCmds = SubSeq(cmd_log.accepted, 1, n)
    /\ task_pc \in {"running", "sending"} => cmd_log.accepted = HandledCmds \o cmd_chan
    /\ \A i \in 1..n :
         /\ cmd_log.handled[i].cmd.type = "SearchFile"
               => cmd_log.handled[i].effect = "get_record"
         /\ cmd_log.handled[i].cmd.type = "GetPeerCount"
               => cmd_log.handled[i].effect = "peer count reply"
         /\ cmd_log.handled[i].effect = "put_record"
               => cmd_log.handled[i].cmd.type = "PublishFile"
         /\ cmd_log.handled[i].effect = "dial"
               => cmd_log.handled[i].cmd.type = "ConnectPeer"
         /\ cmd_log.handled[i].cmd.type = "Shutdown" => i = n

C25_Witness ==
    /\ Len(cmd_log.handled) = 3
    /\ cmd_log.handled[1].effect = "dial"
    /\ cmd_log.handled[2].effect = "put_record"
    /\ cmd_log.handled[3].cmd.type = "Shutdown"
    /\ task_pc = "exited"

\* C26: an Error event never blocks the node task for good: a task suspended
\* in the send of an Error event gets back to its loop, also when nobody
\* drains the event channel.
C26_ErrorNeverBlocks ==
    (task_pc = "sending" /\ pending_event.type = "Error") ~> (task_pc # "sending")

\* C27: chunk_file on a file of n bytes returns k entries, k the least number
\* of chunks of CHUNK_SIZE bytes that hold n bytes (none for n = 0), with
\* indices 0..k-1 in order, total_chunks = k, every size CHUNK_SIZE except
\* the last, which is what remains, and the storage directory holds exactly
\* one file per entry hash.
C27_ChunkFileLayout ==
    ck_pc # "idle" /\ ck_pc # "chunking" =>
        LET n == Len(ck_input.data)
            k == Len(ck_chunks)
        IN /\ k * CHUNK_SIZE >= n
           /\ k > 0 => (k - 1) * CHUNK_SIZE < n
           /\ \A i \in 1..k :
                /\ ck_chunks[i].index = i - 1
                /\ ck_chunks[i].total_chunks = k
                /\ ck_chunks[i].size = IF i < k THEN CHUNK_SIZE
                                       ELSE n - (k - 1) * CHUNK_SIZE
                /\ Cardinality({f \in ck_disk : f.name = ck_chunks[i].hash}) = 1
           /\ {f.name : f \in ck_disk} = {ck_chunks[i].hash : i \in 1..k}

C27_Witness ==
    /\ ck_pc = "chunked"
    /\ Len(ck_input.data) = 3
    /\ Len(ck_chunks) = 2
    /\ ck_chunks[2].size = 1
    /\ ck_chunks[2].total_chunks = 2

\* C28: load_manifest returns a manifest only if its manifest_hash equals the
\* hash recomputed with the field cleared; a manifest as store_file_with_manifest
\* saved it is returned unchanged, and a stored manifest of which a field
\* other than manifest_hash was changed is rejected.
C28_LoadManifest ==
    rc_ret.called =>
        LET stored == {f \in mg_manifests : f.path = rc_ret.file_hash}
        IN /\ rc_ret.result = "ok" =>
                 /\ calculate_manifest_hash(rc_ret.manifest) = rc_ret.manifest.manifest_hash
                 /\ \E f \in stored : f.manifest = rc_ret.manifest
           /\ \A f \in stored :
                 IF f.altered THEN rc_ret.result # "ok"
                 ELSE rc_ret.result = "ok" /\ rc_ret.manifest = f.manifest
           /\ (mg_hist.valid /\ rc_ret.file_hash = mg_hist.manifest.file_hash
                 /\ ~rc_tampered) =>
                 /\ rc_ret.result = "ok"
                 /\ rc_ret.manifest.chunks = mg_hist.manifest.chunks
                 /\ rc_ret.manifest.file_size = Len(mg_hist.data)

C28_Witness ==
    /\ rc_ret.called
    /\ rc_ret.result = "err_integrity"
    /\ \E f \in mg_manifests :
          /\ f.path = rc_ret.file_hash /\ f.altered
          /\ Len(f.manifest.chunks) = 2
          /\ f.manifest.chunks[2].offset = 2

\* the manifest file that the latest successful store_file_with_manifest
\* call saved and returned
ReturnedManifest ==
    (CHOOSE f \in mg_manifests : f.path = mg_hist.manifest.file_hash).manifest

\* C29: in a manifest returned by store_file_with_manifest the chunk sizes
\* add up to file_size (the length of the file), the indices are
\* 0..total_chunks-1 in list order and each offset is the sum of the sizes
\* of the chunks before it.
C29_ManifestLayout ==
    (mg_ret = "ok" /\ mg_hist.valid) =>
        LET m == ReturnedManifest
            before[n \in 0..Len(m.chunks)] ==
                IF n = 0 THEN 0 ELSE before[n - 1] + m.chunks[n].size
        IN /\ before[Len(m.chunks)] = m.file_size
           /\ m.file_size = Len(mg_hist.data)
           /\ m.total_chunks = Len(m.chunks)
           /\ \A i \in 1..Len(m.chunks) :
                /\ m.chunks[i].index = i - 1
                /\ m.chunks[i].offset = before[i - 1]

C29_Witness ==
    /\ mg_ret = "ok" /\ mg_hist.valid
    /\ ReturnedManifest.total_chunks = 2
    /\ ReturnedManifest.chunks[2].offset = 1
    /\ ReturnedManifest.file_size = 2

\* C30: whatever step an ingest stops at, a file manifests/<file_hash>.json
\* is a complete manifest, and every chunk it lists has a file under
\* chunks/ (verify_chunks_available returns an empty list); nothing deletes
\* chunks here.
C30_ManifestAfterChunks ==
    \A f \in mg_manifests :
        f.path # manifest_temp_path(f.manifest.file_hash) =>
            /\ f.complete
            /\ f.path = f.manifest.file_hash
            /\ calculate_manifest_hash(f.manifest) = f.manifest.manifest_hash
            /\ verify_chunks_available(f.manifest, mg_files) = << >>

C30_Witness ==
    /\ mg_ret = "err"
    /\ \E f \in mg_manifests : ~f.complete
    /\ \E f \in mg_manifests :
          /\ f.path = f.manifest.file_hash
          /\ f.manifest.total_chunks = 2
          /\ f.complete

StoreRejected(p, reason) ==
    /\ st_pc[p] \in {"idle", "st_write", "st_writing"}
    /\ st_pc'[p] = "idle"
    /\ st_ret'[p] = Ret(reason)
    /\ st_ret'[p] # st_ret[p]

\* C32: a store_chunk that is rejected (insufficient capacity, chunk_hash
\* different from the SHA-256 of the data, or a failed disk write) leaves
\* stored_chunks and used_capacity as they were, and a rejection for
\* capacity or hash has written nothing to disk.
C32_RejectedStore ==
    [][\A p \in Procs :
         /\ (StoreRejected(p, "err_capacity") \/ StoreRejected(p, "err_hash")) =>
                /\ st_pc[p] = "idle"
                /\ stored_chunks' = stored_chunks
                /\ used_capacity' = used_capacity
                /\ disk' = disk
         /\ (StoreRejected(p, "err_io") /\ st_pc[p] # "idle") =>
                /\ stored_chunks' = stored_chunks
                /\ used_capacity' = used_capacity]_vars

\* all three rejections have happened next to a chunk that is stored
C32_Witness ==
    /\ \E p \in Procs : st_ret[p] = Ret("err_io")
    /\ \E p \in Procs : st_ret[p] = Ret("err_hash")
    /\ used_capacity > 0
    /\ \E h \in ChunkHashes : stored_chunks[h] # NoChunk

\* C33: retrieve_chunk and verify_chunk running next to a store_chunk of the
\* same hash observe either no chunk or the complete bytes, never a partial
\* file: the bytes retrieve_chunk returns hash to the requested chunk_hash,
\* and verify_chunk does not find a file that fails the hash comparison.
C33_NoPartialObserved ==
    \A p \in Procs :
        /\ st_ret[p].result = "chunk" =>
               compute_chunk_hash(st_ret[p].data) = st_ret[p].chunk_hash
        /\ st_ret[p].result = "verified" =>
               (st_ret[p].exists => st_ret[p].valid)

\* the sum of the sizes recorded in stored_chunks
StoredSize ==
    LET sum[S \in SUBSET ChunkHashes] ==
            IF S = {} THEN 0
            ELSE LET h == CHOOSE x \in S : TRUE
                 IN stored_chunks[h] + sum[S \ {h}]
    IN sum[ChunkHashes]

\* C35: in every state reached by store_chunk and delete_chunk calls made
\* one after the other, used_capacity equals the sum of the sizes recorded
\* in stored_chunks, also when the same chunk hash is stored more than once
\* before it is deleted.
C35_UsedIsStoredSize ==
    used_capacity = StoredSize

\* C34: every OutgoingConnectionError adds exactly 1 to bootstrap_failures
\* and exactly 1 to consecutive_bootstrap_failures and records last_error
\* and last_error_at, whatever the error text; every IncomingConnectionError
\* adds 1 to bootstrap_failures and leaves consecutive_bootstrap_failures
\* as it was. (Handlers taken with the metrics mutex free.)
C34_ErrorCounters ==
    [][/\ \A hp \in BOOLEAN, t \in ErrTexts :
            OutgoingConnectionError(hp, t, TRUE, TRUE) =>
                /\ metrics'.bootstrap_failures = metrics.bootstrap_failures + 1
                /\ metrics'.consecutive_bootstrap_failures =
                       metrics.consecutive_bootstrap_failures + 1
                /\ metrics'.last_error = t
                /\ metrics'.last_error_at = dht_now
       /\ \A t \in ErrTexts :
            IncomingConnectionError(t, TRUE) =>
                /\ metrics'.bootstrap_failures = metrics.bootstrap_failures + 1
                /\ metrics'.consecutive_bootstrap_failures =
                       metrics.consecutive_bootstrap_failures
                /\ metrics'.last_error = t
                /\ metrics'.last_error_at = dht_now]_vars

\* C37: every ConnectionEstablished leaves consecutive_bootstrap_failures
\* at 0 and last_success at the time of the event, whatever other task
\* holds the metrics mutex at that moment (a metrics_snapshot in progress).
C37_ConnectionResetsCounter ==
    [][\A p \in Peers :
          ConnectionEstablished(p, metrics_try_lock, MaxPeerConns) =>
              /\ metrics'.consecutive_bootstrap_failures = 0
              /\ metrics'.last_success = dht_now]_vars

\* C38: connected_peers holds exactly the peers with at least one open
\* connection; a peer with two open connections of which one closes stays
\* in the set (and in the count get_peer_count reads from it).
C38_ConnectedPeers ==
    connected_peers = {p \in Peers : open_conns[p] > 0}

\* C36: a manifest returned by store_file_with_manifest called with a
\* recipient key is reconstructed by reconstruct_file with the AES key
\* wrapped in that manifest's own bundle, also when chunks of the file were
\* already in the store from an earlier ingest of the same bytes (under
\* another random key, or unencrypted) and were reused. Nothing has touched
\* the chunk files and the manifest is passed as it was saved.
C36_OwnKeyReconstructs ==
    (/\ rc_ret.called
     /\ ~rc_tampered
     /\ \E s \in mg_manifests : s.complete /\ s.manifest = rc_ret.manifest
     /\ encryption_is_some(rc_ret.manifest)
     /\ rc_ret.key = rc_ret.manifest.encryption.bundle_of) =>
        /\ rc_ret.result = "ok"
        /\ manager_hash_file(rc_ret.out) = rc_ret.manifest.file_hash

\* C39: an entry added by hand is never replaced by an automatic one: while
\* peer p has a manual entry, check_auto_blacklist(p, ..) returns false and
\* leaves the entry as it is, and cleanup_expired does not remove it;
\* add_manual on a peer that has an automatic entry leaves the peer with
\* one entry, a manual one.
C39_ManualEntryStays ==
    [][/\ \A e \in bl_entries :
            ~e.is_automatic =>
               /\ (bl_ret'.op = "check_auto_blacklist" /\ bl_ret'.peer_id = e.peer_id) =>
                      (bl_ret'.value = FALSE /\ bl_entries' = bl_entries)
               /\ bl_ret'.op = "cleanup_expired" => e \in bl_entries'
       /\ bl_ret'.op = "add_manual" =>
            \A e \in bl_entries' :
                e.peer_id = bl_ret'.peer_id =>
                    (~e.is_automatic /\ e.blacklisted_at = bl_now)]_vars

\* C39 witness: a check that would have blacklisted the peer (automatic
\* blacklisting enabled, mode not "manual", score or count past the
\* threshold) returned false because the peer has a manual entry, which is
\* older than the retention period.
C39_Witness ==
    /\ bl_ret.op = "check_auto_blacklist"
    /\ bl_ret.value = FALSE
    /\ bl_config.blacklist_auto_enabled
    /\ bl_config.blacklist_mode # "manual"
    /\ should_blacklist(bl_config, bl_ret.score, bl_ret.bad_verdict_count)
    /\ \E e \in bl_entries :
          /\ e.peer_id = bl_ret.peer_id
          /\ ~e.is_automatic
          /\ bl_now - e.blacklisted_at > bl_config.blacklist_retention * SECONDS_PER_DAY

\* C40: a peer without verdicts is not blacklisted automatically: under the
\* default configuration, check_auto_blacklist called with the score of an
\* empty verdict list (0.0) and a bad-verdict count of 0 returns false and
\* inserts no entry.
C40_NewPeerNotBlacklisted ==
    [][\A p \in BlPeers :
          (bl_config = DefaultReputationConfig /\ CheckNewPeer(p)) =>
              /\ bl_ret'.value = FALSE
              /\ bl_entries' = bl_entries]_vars

====
